---- MODULE Spec2Model ----
(***************************************************************************)
(* Coordination layer of back2blaze: the TTL lock files (locks.py), the    *)
(* task registry file (tasks_registry.py), the drivers that use them       *)
(* (scheduler.py, cli.py), the interval parsing (utils.py) and the         *)
(* retention deletion set (retention.py).                                  *)
(*                                                                         *)
(* Text is modelled at field granularity.  A Field is a sequence of        *)
(* symbols (one-character strings, or opaque tokens such as a pid); a      *)
(* line of a file is the sequence of its '|'-separated fields.  A job      *)
(* name is a sequence of symbols and may contain the symbol "|".           *)
(***************************************************************************)
EXTENDS Integers, Sequences, FiniteSets, TLC

\* ------------------------------------------------------------------ bounds
MaxTtl == 2
MaxTicks == 2
MaxLines == 2
SysTicks == 2
SchedTicks == 4
MaxStr == 3
MaxObjs == 3
MaxLm == 2
MaxKeep == 2
MaxAgeDays == 2
\* the model's chunk_size (retention.py 51 has 1000) and the number of
\* objects list_objects_v2 puts on one page
chunk_size == 2
PageSize == 2
\* the longest job name of the lock-path harness
MaxName == 2
MaxSources == 2

\* The clock starts beyond every TTL, as a Unix timestamp does.
StartTime == MaxTtl + 1
MaxClock == StartTime + MaxTicks
SysMaxClock == StartTime + SysTicks
SchedMaxClock == StartTime + SchedTicks
Times == 0..(MaxClock + SysTicks + SchedTicks)
Ttls == 0..MaxTtl

RangeOfSeq(q) == { q[i] : i \in DOMAIN q }

\* ------------------------------------------------------------ text helpers
Sep == "|"

RECURSIVE SplitFields(_)
\* str.split("|") of a symbol sequence: the sequence of its fields.
SplitFields(s) ==
  IF \A i \in DOMAIN s : s[i] # Sep THEN << s >>
  ELSE LET k == CHOOSE i \in DOMAIN s :
                  s[i] = Sep /\ \A j \in 1..(i - 1) : s[j] # Sep
       IN  << SubSeq(s, 1, k - 1) >> \o SplitFields(SubSeq(s, k + 1, Len(s)))

RECURSIVE JoinFields(_)
\* "|".join(fields)
JoinFields(fs) ==
  IF Len(fs) = 0 THEN << >>
  ELSE IF Len(fs) = 1 THEN fs[1]
  ELSE fs[1] \o << Sep >> \o JoinFields(Tail(fs))

\* str.split("|", n): at most n + 1 parts, the last one keeps its separators.
SplitMax(fs, n) ==
  IF Len(fs) <= n + 1 THEN fs
  ELSE SubSeq(fs, 1, n) \o << JoinFields(SubSeq(fs, n + 1, Len(fs))) >>

\* f"{timestamp}" : the text of a number.
FormatTs(n) == << ToString(n) >>

BadTs == 0 - 1
\* float(text): the number a text denotes, BadTs where float() raises.
ParseFloat(f) ==
  IF \E n \in Times : FormatTs(n) = f
  THEN CHOOSE n \in Times : FormatTs(n) = f
  ELSE BadTs

\* -------------------------------------------------------------- lock files
SafeChars == {"j", "k", "_", ".", "-"}

\* mutant: only the separator of the registry is replaced
get_lock_path_bar(job_name) ==
  [i \in DOMAIN job_name |-> IF job_name[i] = "|" THEN "_" ELSE job_name[i]]

\* locks.py 9-11: re.sub(r"[^a-zA-Z0-9_.-]", "_", job_name)
get_lock_path(job_name) ==
  [i \in DOMAIN job_name |->
      IF job_name[i] \in SafeChars THEN job_name[i] ELSE "_"]

NoFile == [exists |-> FALSE, text |-> << >>]
EmptyText == << << >> >>

LockRecord(now_ts, pid, host) == << FormatTs(now_ts), pid, host >>

\* Outcomes of the file-system calls of one acquire.
AcquireIo == {"ok", "read_err", "mkdir_err", "open_err", "write_err"}

\* mutant: an existing lock is held whatever its age
acquire_job_lock_fresh_ever(f, now_ts, ttl_seconds, io) ==
  f.exists /\ io # "read_err"

\* mutant: the staleness test is off by one second
acquire_job_lock_fresh_early(f, now_ts, ttl_seconds, io) ==
  /\ f.exists
  /\ io # "read_err"
  /\ LET parts == SplitMax(f.text, 2)
         ts == IF Len(parts) > 0 /\ parts[1] # << >>
               THEN ParseFloat(parts[1]) ELSE 0
     IN  /\ ts # BadTs
         /\ now_ts - ts + 1 < ttl_seconds

\* mutant: a lock of age exactly ttl still counts as held
acquire_job_lock_fresh_incl(f, now_ts, ttl_seconds, io) ==
  /\ f.exists
  /\ io # "read_err"
  /\ LET parts == SplitMax(f.text, 2)
         ts == IF Len(parts) > 0 /\ parts[1] # << >>
               THEN ParseFloat(parts[1]) ELSE 0
     IN  /\ ts # BadTs
         /\ now_ts - ts <= ttl_seconds

acquire_job_lock_fresh(f, now_ts, ttl_seconds, io) ==
  \* lines 16-24: TRUE iff the early "return False" is taken
  /\ f.exists
  /\ io # "read_err"
  /\ LET parts == SplitMax(f.text, 2)
         ts == IF Len(parts) > 0 /\ parts[1] # << >>
               THEN ParseFloat(parts[1]) ELSE 0
     IN  /\ ts # BadTs
         /\ now_ts - ts < ttl_seconds

\* mutant: a stale lock is taken over as it is, its record is not replaced
acquire_job_lock_keep(f, now_ts, ttl_seconds, io, pid, host) ==
  IF acquire_job_lock_fresh(f, now_ts, ttl_seconds, io)
    THEN [ret |-> FALSE, file |-> f]
  ELSE IF io \in {"mkdir_err", "open_err"}
    THEN [ret |-> FALSE, file |-> f]
  ELSE IF io = "write_err"
    THEN [ret |-> FALSE, file |-> [exists |-> TRUE, text |-> EmptyText]]
  ELSE IF f.exists
    THEN [ret |-> TRUE, file |-> f]
  ELSE [ret |-> TRUE,
        file |-> [exists |-> TRUE, text |-> LockRecord(now_ts, pid, host)]]

acquire_job_lock(f, now_ts, ttl_seconds, io, pid, host) ==
  IF acquire_job_lock_fresh(f, now_ts, ttl_seconds, io)
    THEN [ret |-> FALSE, file |-> f]
  ELSE IF io \in {"mkdir_err", "open_err"}
    THEN [ret |-> FALSE, file |-> f]
  ELSE IF io = "write_err"
    \* write_text opened (and truncated) the file, the write itself failed
    THEN [ret |-> FALSE, file |-> [exists |-> TRUE, text |-> EmptyText]]
  ELSE [ret |-> TRUE,
        file |-> [exists |-> TRUE, text |-> LockRecord(now_ts, pid, host)]]

ReleaseIo == {"ok", "unlink_err"}

\* mutant: the existence test is inverted, an existing lock is never unlinked
release_job_lock_inverted(f, io) ==
  IF ~f.exists /\ io = "ok" THEN NoFile ELSE f

release_job_lock(f, io) ==
  IF f.exists /\ io = "ok" THEN NoFile ELSE f

\* ------------------------------------------------------------ registry file
NoReg == [exists |-> FALSE, lines |-> << >>]

Whitespace == {" "}
\* not line.strip()
IsBlank(line) == \A i \in DOMAIN JoinFields(line) : JoinFields(line)[i] \in Whitespace

\* mutant: a record of age exactly ttl still counts as fresh
RegistryKeeps_incl(line, now_ts, ttl_seconds) ==
  LET parts == SplitMax(line, 4)
  IN  /\ ~IsBlank(line)
      /\ Len(parts) >= 3
      /\ ParseFloat(parts[1]) # BadTs
      /\ now_ts - ParseFloat(parts[1]) <= ttl_seconds

\* mutant: a line needs a job name only, not a task id
RegistryKeeps_two(line, now_ts, ttl_seconds) ==
  LET parts == SplitMax(line, 4)
  IN  /\ ~IsBlank(line)
      /\ Len(parts) >= 2
      /\ ParseFloat(parts[1]) # BadTs
      /\ now_ts - ParseFloat(parts[1]) < ttl_seconds

\* lines 27-40: is the line kept (and its job name reported) by active_jobs
RegistryKeeps(line, now_ts, ttl_seconds) ==
  LET parts == SplitMax(line, 4)
  IN  /\ ~IsBlank(line)
      /\ Len(parts) >= 3
      /\ ParseFloat(parts[1]) # BadTs
      /\ now_ts - ParseFloat(parts[1]) < ttl_seconds

\* tasks_file.write_text("\n".join(ls) + ("\n" if ls else "")) under outcome io
RewriteRegistry(f, ls, io) ==
  \* the file is opened (and truncated), the write itself fails
  IF io = "write_err" THEN [exists |-> TRUE, lines |-> << >>]
  ELSE [exists |-> TRUE, lines |-> ls]

RegistryIo == {"ok", "read_err", "write_err"}

\* mutant: the job name is reported before the age of the record is tested
get_active_jobs_from_registry_eager(f, now_ts, ttl_seconds, io) ==
  IF ~f.exists \/ io = "read_err" THEN [ret |-> << >>, file |-> f]
  ELSE LET kept_lines == SelectSeq(f.lines,
                            LAMBDA l : RegistryKeeps(l, now_ts, ttl_seconds))
           parsed == SelectSeq(f.lines,
                            LAMBDA l : RegistryKeeps(l, now_ts, now_ts + 1))
           active_jobs == [i \in DOMAIN parsed |-> SplitMax(parsed[i], 4)[2]]
       IN  [ret |-> active_jobs,
            file |-> IF kept_lines # f.lines
                     THEN RewriteRegistry(f, kept_lines, io) ELSE f]

get_active_jobs_from_registry(f, now_ts, ttl_seconds, io) ==
  IF ~f.exists \/ io = "read_err" THEN [ret |-> << >>, file |-> f]
  ELSE LET kept_lines == SelectSeq(f.lines,
                            LAMBDA l : RegistryKeeps(l, now_ts, ttl_seconds))
           active_jobs == [i \in DOMAIN kept_lines |-> SplitMax(kept_lines[i], 4)[2]]
       IN  [ret |-> active_jobs,
            file |-> IF kept_lines # f.lines
                     THEN RewriteRegistry(f, kept_lines, io) ELSE f]

RegistryEntry(now_ts, job_name, task_id, pid, host) ==
  << FormatTs(now_ts) >> \o SplitFields(job_name) \o << task_id, pid, host >>

AddIo == {"ok", "mkdir_err", "append_err"}

\* ensure_tasks_file: the mkdir is outside the try, the touch inside it
ensure_tasks_file(f, io) ==
  IF io = "mkdir_err" THEN [raised |-> TRUE, file |-> f]
  ELSE IF f.exists THEN [raised |-> FALSE, file |-> f]
  ELSE [raised |-> FALSE, file |-> [exists |-> TRUE, lines |-> << >>]]

\* mutant: the file is opened for writing, not for appending
add_task_to_registry_trunc(f, now_ts, job_name, task_id, pid, host, io) ==
  LET e == ensure_tasks_file(f, io)
  IN  IF e.raised \/ io = "append_err" THEN e
      ELSE [raised |-> FALSE,
            file |-> [exists |-> TRUE,
                      lines |-> << RegistryEntry(now_ts, job_name, task_id,
                                                 pid, host) >>]]

add_task_to_registry(f, now_ts, job_name, task_id, pid, host, io) ==
  LET e == ensure_tasks_file(f, io)
  IN  IF e.raised \/ io = "append_err" THEN e
      ELSE [raised |-> FALSE,
            file |-> [exists |-> TRUE,
                      lines |-> Append(e.file.lines,
                          RegistryEntry(now_ts, job_name, task_id, pid, host))]]

\* lines 68-72: does remove drop the line
RemoveMatches(line, task_id) ==
  LET parts == SplitMax(line, 4)
  IN  Len(parts) >= 3 /\ parts[3] = task_id

remove_task_from_registry(f, task_id, io) ==
  IF ~f.exists \/ io = "read_err" THEN f
  ELSE LET new_lines == SelectSeq(f.lines, LAMBDA l : ~RemoveMatches(l, task_id))
       IN  IF new_lines # f.lines THEN RewriteRegistry(f, new_lines, io) ELSE f

\* ------------------------------------------------------ schedule intervals
\* The value of a job's "every" key: absent (None), a number, a string, or
\* something else (a list, a mapping).
NoEvery == [kind |-> "none", num |-> 0, str |-> << >>]
OtherEvery == [kind |-> "other", num |-> 0, str |-> << >>]
NumEvery(n) == [kind |-> "num", num |-> n, str |-> << >>]
StrEvery(s) == [kind |-> "str", num |-> 0, str |-> s]

\* Optional[int]
None == [some |-> FALSE, val |-> 0]
Some(n) == [some |-> TRUE, val |-> n]

\* characters int() reads
Digits == {"0", "1", "2", "3", "4", "5", "6", "7", "8", "9"}
\* characters for which str.isdigit() is true and int() raises ValueError
SuperDigits == {"^2"}
Space == {" "}

DigitVal(c) ==
  CASE c = "0" -> 0 [] c = "1" -> 1 [] c = "2" -> 2 [] c = "3" -> 3
    [] c = "4" -> 4 [] c = "5" -> 5 [] c = "6" -> 6 [] c = "7" -> 7
    [] c = "8" -> 8 [] c = "9" -> 9

\* str.lower() on one character
Lower(c) ==
  CASE c = "S" -> "s" [] c = "M" -> "m" [] c = "H" -> "h" [] c = "D" -> "d"
    [] OTHER -> c

RECURSIVE Strip(_)
\* str.strip()
Strip(s) ==
  IF Len(s) = 0 THEN s
  ELSE IF Head(s) \in Space THEN Strip(Tail(s))
  ELSE IF s[Len(s)] \in Space THEN Strip(SubSeq(s, 1, Len(s) - 1))
  ELSE s

\* str.isdigit()
IsDigit(s) == Len(s) > 0 /\ \A i \in DOMAIN s : s[i] \in Digits \cup SuperDigits

\* int(s) raises ValueError
IntRaises(s) == \E i \in DOMAIN s : s[i] \notin Digits

RECURSIVE IntOf(_)
\* int(s) of a string of decimal digits
IntOf(s) ==
  IF Len(s) = 0 THEN 0
  ELSE 10 * IntOf(SubSeq(s, 1, Len(s) - 1)) + DigitVal(s[Len(s)])

\* mutant: minutes are taken for seconds
UnitSeconds_flat(c) ==
  CASE c = "s" -> 1 [] c = "m" -> 1 [] c = "h" -> 3600 [] c = "d" -> 86400
    [] OTHER -> 0

\* utils.py 79-86: the multiplier of a unit suffix, 0 for any other character
UnitSeconds(c) ==
  CASE c = "s" -> 1 [] c = "m" -> 60 [] c = "h" -> 3600 [] c = "d" -> 86400
    [] OTHER -> 0

\* utils.py 68-89
parse_interval_to_seconds(value) ==
  IF value.kind = "none" THEN None
  ELSE IF value.kind = "num" THEN Some(value.num)
  ELSE IF value.kind # "str" THEN None
  ELSE LET s == [i \in DOMAIN Strip(value.str) |-> Lower(Strip(value.str)[i])]
           body == SubSeq(s, 1, Len(s) - 1)
       IN  IF IsDigit(s)
             THEN IF IntRaises(s) THEN None ELSE Some(IntOf(s))
           ELSE IF Len(s) > 0 /\ UnitSeconds(s[Len(s)]) > 0 /\ IsDigit(body)
             THEN IF IntRaises(body) THEN None
                  ELSE Some(IntOf(body) * UnitSeconds(s[Len(s)]))
           ELSE None

\* mutant: an interval of zero is scheduled
NoSchedule_zero(interval) == ~interval.some \/ interval.val < 0

\* scheduler.py 36: not interval or interval <= 0
NoSchedule(interval) == ~interval.some \/ interval.val = 0 \/ interval.val <= 0

RECURSIVE ScheduleEntries(_)
\* scheduler.py 32-42: the jobs that have a positive interval, in their order
ScheduleEntries(jobs) ==
  IF Len(jobs) = 0 THEN << >>
  ELSE LET interval == parse_interval_to_seconds(Head(jobs).every)
       IN  IF NoSchedule(interval) THEN ScheduleEntries(Tail(jobs))
           ELSE << [job |-> Head(jobs).job, interval |-> interval.val] >>
                  \o ScheduleEntries(Tail(jobs))

\* ------------------------------------------------------------ retention
\* An object of the listing is [key, lm]: keys are numbered in their
\* lexicographic order, lm (LastModified) and the clock are counted in days.
RECURSIVE InsertByLm(_, _)
\* x goes before the first object that is not newer than x
InsertByLm(x, sorted) ==
  IF Len(sorted) = 0 THEN << x >>
  ELSE IF Head(sorted).lm > x.lm
    THEN << Head(sorted) >> \o InsertByLm(x, Tail(sorted))
  ELSE << x >> \o sorted

RECURSIVE SortByLm(_)
\* retention.py 27: keys.sort(key=lambda kv: kv[1], reverse=True), a stable
\* sort: objects of equal lm keep their listing order
SortByLm(keys) ==
  IF Len(keys) = 0 THEN << >>
  ELSE InsertByLm(Head(keys), SortByLm(Tail(keys)))

\* mutant: the keep-count is taken from the other end of the sorted list
BeyondKeep_newest(keys, max_keep) ==
  IF max_keep # 0 /\ Len(keys) > max_keep
  THEN { keys[i].key : i \in 1..(Len(keys) - max_keep) }
  ELSE {}

\* retention.py 31-32: the keys beyond the keep-count
BeyondKeep(keys, max_keep) ==
  IF max_keep # 0 /\ Len(keys) > max_keep
  THEN { keys[i].key : i \in (max_keep + 1)..Len(keys) }
  ELSE {}

\* retention.py 34-36: the keys older than the cutoff
OlderThan(keys, max_age_days, now_ts) ==
  IF max_age_days # 0
  THEN { keys[i].key : i \in { j \in DOMAIN keys :
                                  keys[j].lm < now_ts - max_age_days } }
  ELSE {}

\* mutant: a key is deleted only when both rules select it
ToDelete_both(keys, max_keep, max_age_days, now_ts) ==
  BeyondKeep(SortByLm(keys), max_keep)
    \cap OlderThan(SortByLm(keys), max_age_days, now_ts)

\* retention.py 27-38: set(to_delete)
ToDelete(keys, max_keep, max_age_days, now_ts) ==
  BeyondKeep(SortByLm(keys), max_keep)
    \cup OlderThan(SortByLm(keys), max_age_days, now_ts)

RECURSIVE SortedKeys(_)
\* sorted(set): the keys in ascending order
SortedKeys(S) ==
  IF S = {} THEN << >>
  ELSE LET least == CHOOSE k \in S : \A m \in S : k <= m
       IN  << least >> \o SortedKeys(S \ {least})

\* mutant: the early return of an unset policy is gone
NoPolicy_never(max_keep, max_age_days) == FALSE

\* retention.py 13: not max_keep and not max_age_days (None and 0 alike)
NoPolicy(max_keep, max_age_days) == max_keep = 0 /\ max_age_days = 0

\* retention.py 5-58: the list to_delete, empty on the early returns
apply_retention(keys, max_keep, max_age_days, now_ts) ==
  IF NoPolicy(max_keep, max_age_days) THEN << >>
  ELSE IF Len(keys) = 0 THEN << >>
  ELSE SortedKeys(ToDelete(keys, max_keep, max_age_days, now_ts))

\* the pages list_objects_v2 answers with: one at least
NumPages(n) == IF n = 0 THEN 1 ELSE (n + PageSize - 1) \div PageSize

\* mutant: a page that fails ends the listing and the keys read so far are
\* used
ListObjects_partial(objs, list_io) ==
  IF list_io = 0
  THEN [raised |-> FALSE, requests |-> NumPages(Len(objs)), keys |-> objs]
  ELSE [raised |-> FALSE, requests |-> list_io,
        keys |-> SubSeq(objs, 1, (list_io - 1) * PageSize)]

\* retention.py 16-22: the pages are read in turn.  list_io = 0: every page
\* arrives; list_io = k: the request for page k raises, and nothing catches
\* it
ListObjects(objs, list_io) ==
  IF list_io = 0
  THEN [raised |-> FALSE, requests |-> NumPages(Len(objs)), keys |-> objs]
  ELSE [raised |-> TRUE, requests |-> list_io,
        keys |-> SubSeq(objs, 1, (list_io - 1) * PageSize)]

\* mutant: the dry run reports the first key only
DryRunLines_head(to_delete) == SubSeq(to_delete, 1, 1)

\* retention.py 46-48: one "[dry-run] delete" line for each key
DryRunLines(to_delete) == to_delete

\* mutant: everything goes in one batch
Chunks_whole(to_delete, size) ==
  IF Len(to_delete) = 0 THEN << >> ELSE << to_delete >>

RECURSIVE Chunks(_, _)
\* retention.py 52-53: to_delete[i : i + chunk_size] for i in
\* range(0, len(to_delete), chunk_size)
Chunks(to_delete, size) ==
  IF Len(to_delete) = 0 THEN << >>
  ELSE IF Len(to_delete) <= size THEN << to_delete >>
  ELSE << SubSeq(to_delete, 1, size) >>
         \o Chunks(SubSeq(to_delete, size + 1, Len(to_delete)), size)

\* retention.py 52-57: the delete_objects calls made, in order.  del_io = 0:
\* every call returns; del_io = b: the call for batch b raises, which ends
\* the loop and the function, there being no try around the call
DeleteCalls(chunks, del_io) ==
  IF del_io = 0 THEN chunks ELSE SubSeq(chunks, 1, del_io)

\* the keys of the calls that returned; a call that raised deleted nothing
DeletedKeys(chunks, del_io) ==
  LET done == IF del_io = 0 THEN chunks ELSE SubSeq(chunks, 1, del_io - 1)
  IN  UNION { RangeOfSeq(done[b]) : b \in DOMAIN done }

\* retention.py 5-58, one call with its effects: the page requests made,
\* whether it raised, the lines printed (out, and dry for the dry-run
\* lines), the batches sent to delete_objects and the keys deleted
apply_retention_call(objs, max_keep, max_age_days, now_ts, dry_run, list_io, del_io) ==
  LET none == [requests |-> 0, raised |-> FALSE, out |-> << >>, dry |-> << >>,
               sent |-> << >>, deleted |-> {}]
      l == ListObjects(objs, list_io)
      to_delete == apply_retention(l.keys, max_keep, max_age_days, now_ts)
      chunks == Chunks(to_delete, chunk_size)
  IN  IF NoPolicy(max_keep, max_age_days) THEN none
      ELSE IF l.raised
        THEN [none EXCEPT !.requests = l.requests, !.raised = TRUE]
      ELSE IF Len(l.keys) = 0 \/ Len(to_delete) = 0
        THEN [none EXCEPT !.requests = l.requests]
      ELSE IF dry_run
        THEN [none EXCEPT !.requests = l.requests,
                          !.out = << "will delete" >>,
                          !.dry = DryRunLines(to_delete)]
      ELSE [requests |-> l.requests,
            raised |-> del_io # 0,
            out |-> IF del_io = 0 THEN << "will delete", "applied" >>
                    ELSE << "will delete" >>,
            dry |-> << >>,
            sent |-> DeleteCalls(chunks, del_io),
            deleted |-> DeletedKeys(chunks, del_io)]

\* ------------------------------------------------------------------- state
VARIABLES
  now,       \* the wall clock, datetime.now().timestamp() / time.time()
  ttl,       \* --lock-ttl, the ttl_seconds of every call
  locks,     \* lock directory: lock path -> file
  registry,  \* the tasks file
  calls,     \* the last two calls made on the component under test
  pc,        \* driver process -> where it is in schedule_loop / main
  idx,       \* driver process -> index of the entry (job) it is working on
  tickNow,   \* scheduler: the "now" read at the top of the current pass
  nextRun,   \* scheduler: next_run of every schedule entry
  taskId,    \* driver process -> task id of its run in progress
  wake,      \* scheduler: the time its sleep ends
  acqAt,     \* driver process -> time its run in progress took the lock
  overrun,   \* some run has held its lock for lock_ttl seconds or more
  cfg,       \* the configured jobs, each with its name and its "every" value
  faults,    \* number of file-system calls of the drivers that failed so far
  tick,      \* --tick-interval
  delayed,   \* scheduler, per entry: a job body was executing after next_run
  nextDue,   \* scheduler: next_due of the pass in progress
  newLines,  \* process -> the lines its registry call in progress writes back
  bucket     \* the objects of the bucket (under a job's prefix), as listed

drv == << pc, idx, tickNow, nextRun, taskId, wake, acqAt, overrun, cfg, faults,
         tick, delayed, nextDue, newLines >>
vars == << now, ttl, locks, registry, calls, drv, bucket >>

Procs == {"p1", "p2"}
PidOf(p) == << p >>
Host == << "h" >>

JobNames == { << "j", "|", "k" >>, << "j", "_", "k" >> }
LockPaths == { get_lock_path(n) : n \in JobNames }

Push(c) == IF Len(calls) < 2 THEN Append(calls, c) ELSE << calls[2], c >>

\* a registry call has nothing to write back
NoLines == [some |-> FALSE, val |-> << >>]
SomeLines(ls) == [some |-> TRUE, val |-> ls]

\* no driver process is running
NoDrivers ==
  /\ pc = [p \in Procs |-> "off"]
  /\ idx = [p \in Procs |-> 0]
  /\ tickNow = [p \in Procs |-> 0]
  /\ nextRun = [p \in Procs |-> << >>]
  /\ taskId = [p \in Procs |-> << >>]
  /\ wake = [p \in Procs |-> 0]
  /\ acqAt = [p \in Procs |-> 0]
  /\ overrun = FALSE
  /\ cfg = << >>
  /\ faults = 0
  /\ tick = 0
  /\ delayed = << >>
  /\ nextDue = [p \in Procs |-> None]
  /\ newLines = [p \in Procs |-> NoLines]

\* ------------------------------------------------- the lock manager alone
InitLock ==
  /\ now = StartTime
  /\ ttl \in Ttls
  /\ locks = [lp \in LockPaths |-> NoFile]
  /\ registry = NoReg
  /\ calls = << >>
  /\ bucket = << >>
  /\ NoDrivers

LockAcquire(p, n, io) ==
  LET lp == get_lock_path(n)
      r == acquire_job_lock(locks[lp], now, ttl, io, PidOf(p), Host)
  IN  /\ locks' = [locks EXCEPT ![lp] = r.file]
      /\ calls' = Push([op |-> "acquire", job |-> n, path |-> lp, io |-> io,
                        pid |-> PidOf(p), pre |-> locks[lp], post |-> r.file,
                        ret |-> r.ret, at |-> now])
      /\ UNCHANGED << now, ttl, registry, drv, bucket >>

LockRelease(p, n, io) ==
  LET lp == get_lock_path(n)
      f == release_job_lock(locks[lp], io)
  IN  /\ locks' = [locks EXCEPT ![lp] = f]
      /\ calls' = Push([op |-> "release", job |-> n, path |-> lp, io |-> io,
                        pid |-> PidOf(p), pre |-> locks[lp], post |-> f,
                        ret |-> FALSE, at |-> now])
      /\ UNCHANGED << now, ttl, registry, drv, bucket >>

LockTick ==
  /\ now < SysMaxClock
  /\ now' = now + 1
  /\ UNCHANGED << ttl, locks, registry, calls, drv, bucket >>

NextLock ==
  \/ \E n \in JobNames, io \in AcquireIo : LockAcquire("p1", n, io)
  \/ \E n \in JobNames, io \in ReleaseIo : LockRelease("p1", n, io)
  \/ LockTick

SpecLock == InitLock /\ [][NextLock]_vars

\* ---------------------------------------------------- the registry alone
Tids == { << "t1" >>, << "t2" >> }

\* Lines a registry file may hold when a call starts: records written by
\* add (one second old, or new), and damaged lines: a record cut after its
\* task id, one cut after its job name, one with an unreadable timestamp.
LinePool ==
  { RegistryEntry(StartTime - 1, << "j" >>, << "t1" >>, PidOf("p1"), Host),
    RegistryEntry(StartTime, << "j", "_", "k" >>, << "t2" >>, PidOf("p2"), Host),
    << FormatTs(StartTime), << "j" >>, << "t2" >> >>,
    << FormatTs(StartTime), << "j" >> >>,
    << << "x" >>, << "j" >>, << "t1" >>, PidOf("p1"), Host >> }

RECURSIVE SeqsUpTo(_, _)
SeqsUpTo(S, n) ==
  IF n = 0 THEN { << >> }
  ELSE LET shorter == SeqsUpTo(S, n - 1)
       IN  shorter \cup { Append(q, x) : q \in shorter, x \in S }

InitReg ==
  /\ now = StartTime
  /\ ttl \in Ttls
  /\ locks = [lp \in LockPaths |-> NoFile]
  /\ registry \in {NoReg} \cup
        { [exists |-> TRUE, lines |-> ls] : ls \in SeqsUpTo(LinePool, MaxLines) }
  /\ calls = << >>
  /\ bucket = << >>
  /\ NoDrivers

RegActiveJobs(io) ==
  LET r == get_active_jobs_from_registry(registry, now, ttl, io)
  IN  /\ Len(calls) < 2
      /\ registry' = r.file
      /\ calls' = Push([op |-> "active_jobs", job |-> << >>, tid |-> << >>,
                        io |-> io, pid |-> << >>, pre |-> registry,
                        post |-> r.file, ret |-> r.ret, raised |-> FALSE,
                        at |-> now])
      /\ UNCHANGED << now, ttl, locks, drv, bucket >>

RegAdd(p, n, tid, io) ==
  LET r == add_task_to_registry(registry, now, n, tid, PidOf(p), Host, io)
  IN  /\ Len(calls) < 2
      /\ registry' = r.file
      /\ calls' = Push([op |-> "add", job |-> n, tid |-> tid,
                        io |-> io, pid |-> PidOf(p), pre |-> registry,
                        post |-> r.file, ret |-> << >>, raised |-> r.raised,
                        at |-> now])
      /\ UNCHANGED << now, ttl, locks, drv, bucket >>

RegRemove(tid, io) ==
  LET f == remove_task_from_registry(registry, tid, io)
  IN  /\ Len(calls) < 2
      /\ registry' = f
      /\ calls' = Push([op |-> "remove", job |-> << >>, tid |-> tid,
                        io |-> io, pid |-> << >>, pre |-> registry,
                        post |-> f, ret |-> << >>, raised |-> FALSE,
                        at |-> now])
      /\ UNCHANGED << now, ttl, locks, drv, bucket >>

RegTick ==
  /\ Len(calls) < 2
  /\ now < MaxClock
  /\ now' = now + 1
  /\ UNCHANGED << ttl, locks, registry, calls, drv, bucket >>

NextReg ==
  \/ \E io \in RegistryIo : RegActiveJobs(io)
  \/ \E n \in JobNames, io \in AddIo : RegAdd("p1", n, << "t1" >>, io)
  \/ \E tid \in Tids, io \in RegistryIo : RegRemove(tid, io)
  \/ RegTick

SpecReg == InitReg /\ [][NextReg]_vars

\* ------------------------------------------------- the lock paths alone
\* characters of a job name: a letter, a dot, an underscore, the separator
\* of the registry, a slash
NameChars == {"j", ".", "_", "|", "/"}
NamePool == SeqsUpTo(NameChars, MaxName) \ { << >> }

InitPath ==
  /\ now = StartTime
  /\ ttl = MaxTtl
  /\ locks = [lp \in NamePool |-> NoFile]
  /\ registry = NoReg
  /\ calls = << >>
  /\ bucket = << >>
  /\ NoDrivers

\* locks.py 9-33: p1 calls acquire for job n, and then p2 for a job
PathAcquire(p, n) ==
  /\ Len(calls) = IF p = "p1" THEN 0 ELSE 1
  /\ LockAcquire(p, n, "ok")

NextPath ==
  \/ \E p \in Procs, n \in NamePool : PathAcquire(p, n)
  \/ LockTick

SpecPath == InitPath /\ [][NextPath]_vars

\* ------------------------------------------- the drivers, several processes
\* p1 runs schedule_loop, p2 is a one-shot run of main, started at any time;
\* both read the same configuration.
KindOf(p) == IF p = "p1" THEN "sched" ELSE "cli"

JobA == << "j", "_", "k" >>
JobB == << "j", "|", "k" >>

\* cfg["jobs"]: one job, to run every second
Configs == { << [job |-> JobA, every |-> StrEvery(<< "1" >>)] >>,
             << [job |-> JobB, every |-> StrEvery(<< "1" >>)] >> }

\* the largest --tick-interval
TickInterval == 2
MaxFaults == 1

\* scheduler.py 32-42
schedule_entries == ScheduleEntries(cfg)

\* job_display of the entry (scheduler.py 56-57) or job (cli.py 210) at hand
JobOf(p) ==
  IF KindOf(p) = "sched" THEN schedule_entries[idx[p]].job ELSE cfg[idx[p]].job

\* outcome io may be drawn: the failures of a behaviour are bounded
MayFail(io) == io = "ok" \/ faults < MaxFaults
Failed(io) == IF io = "ok" THEN faults ELSE faults + 1

\* generate_task_id: a token no other run has
generate_task_id(p, i, now_ts) == << p, ToString(i), ToString(now_ts) >>

Min(a, b) == IF a < b THEN a ELSE b
Max(a, b) == IF a > b THEN a ELSE b

\* mutant: the pass ends after the first due entry
NextDue_break(nr, i, tnow) ==
  IF i = 0 /\ \E k \in 1..Len(nr) : nr[k] <= tnow
  THEN CHOOSE k \in 1..Len(nr) :
          nr[k] <= tnow /\ \A m \in 1..(k - 1) : nr[m] > tnow
  ELSE 0

\* the first entry after position i that is due at the pass's "now", or 0
NextDue(nr, i, tnow) ==
  IF \E k \in (i + 1)..Len(nr) : nr[k] <= tnow
  THEN CHOOSE k \in (i + 1)..Len(nr) :
          nr[k] <= tnow /\ \A m \in (i + 1)..(k - 1) : nr[m] > tnow
  ELSE 0

\* scheduler.py 94-95: next_due once the for loop is past the entries of
\* the set passed, each of which reached the test of line 94.  An entry that
\* was skipped left its iteration at the continue of line 67 or 75 and is
\* not among them.
NextDueAfter(next_due, nr, passed) ==
  LET seen == { nr[k] : k \in passed }
                \cup (IF next_due.some THEN {next_due.val} ELSE {})
  IN  IF seen = {} THEN None
      ELSE Some(CHOOSE d \in seen : \A e \in seen : d <= e)

\* mutant: the sleep is not floored at one second
SleepFor_nofloor(next_due, now_ts) ==
  IF next_due.some THEN Min(tick, next_due.val - now_ts) ELSE tick

\* scheduler.py 96-98: sleep_for is tick when next_due is None
SleepFor(next_due, now_ts) ==
  IF next_due.some THEN Max(1, Min(tick, next_due.val - now_ts)) ELSE tick

\* where a one-shot run started with --retention-only can be in its loop:
\* at the registry check, or in apply_retention
RetentionOnlyPcs == {"rcheck", "retention"}

\* p is done with entry idx[p]: the for loop goes on (scheduler.py 54, cli.py 209)
Advance(p, nr) ==
  IF KindOf(p) = "sched"
  THEN LET k == NextDue(nr, idx[p], tickNow[p])
           last == IF k # 0 THEN k - 1 ELSE Len(nr)
           \* the entry at hand reaches line 94 when it ran (the finally
           \* block is behind it), the entries up to the next due one do
           passed == (IF pc[p] = "release" THEN {idx[p]} ELSE {})
                       \cup ((idx[p] + 1)..last)
           next_due == NextDueAfter(nextDue[p], nr, passed)
       IN  /\ nextRun' = [nextRun EXCEPT ![p] = nr]
           /\ nextDue' = [nextDue EXCEPT ![p] = next_due]
           /\ delayed' = [i \in DOMAIN delayed |->
                            IF nr[i] = nextRun[p][i] THEN delayed[i]
                            ELSE nr[i] < now]
           /\ IF k # 0
              THEN /\ idx' = [idx EXCEPT ![p] = k]
                   /\ pc' = [pc EXCEPT ![p] = "check"]
                   /\ wake' = wake
              ELSE /\ idx' = [idx EXCEPT ![p] = 0]
                   /\ pc' = [pc EXCEPT ![p] = "sleep"]
                   /\ wake' = [wake EXCEPT ![p] = now + SleepFor(next_due, now)]
  ELSE /\ UNCHANGED << nextRun, wake, delayed, nextDue >>
       /\ IF idx[p] < Len(cfg)
          THEN /\ idx' = [idx EXCEPT ![p] = idx[p] + 1]
               /\ pc' = [pc EXCEPT ![p] = IF pc[p] \in RetentionOnlyPcs
                                          THEN "rcheck" ELSE "check"]
          ELSE /\ idx' = [idx EXCEPT ![p] = 0]
               /\ pc' = [pc EXCEPT ![p] = "done"]

\* mutant: next_run is counted from the time of the assignment
Rescheduled_late(p, t) ==
  IF KindOf(p) = "sched"
  THEN [nextRun[p] EXCEPT ![idx[p]] = now + schedule_entries[idx[p]].interval]
  ELSE nextRun[p]

\* mutant: next_run is counted from the start of the pass
Rescheduled_early(p, t) ==
  IF KindOf(p) = "sched"
  THEN [nextRun[p] EXCEPT
          ![idx[p]] = tickNow[p] + schedule_entries[idx[p]].interval]
  ELSE nextRun[p]

\* entry["next_run"] = t + entry["interval"]
Rescheduled(p, t) ==
  IF KindOf(p) = "sched"
  THEN [nextRun[p] EXCEPT ![idx[p]] = t + schedule_entries[idx[p]].interval]
  ELSE nextRun[p]

Holding(p) == pc[p] \in {"add", "body", "remove", "release"}

InitSys ==
  /\ now = StartTime
  /\ ttl \in Ttls \ {0}
  /\ cfg \in Configs
  /\ tick = TickInterval
  /\ delayed = << >>
  /\ bucket = << >>
  /\ faults = 0
  /\ locks = [lp \in LockPaths |-> NoFile]
  /\ registry = NoReg
  /\ calls = << >>
  /\ pc = [p \in Procs |-> "start"]
  /\ idx = [p \in Procs |-> 0]
  /\ tickNow = [p \in Procs |-> 0]
  /\ nextRun = [p \in Procs |-> << >>]
  /\ taskId = [p \in Procs |-> << >>]
  /\ wake = [p \in Procs |-> 0]
  /\ acqAt = [p \in Procs |-> 0]
  /\ overrun = FALSE
  /\ nextDue = [p \in Procs |-> None]
  /\ newLines = [p \in Procs |-> NoLines]

\* scheduler.py 32-50, cli.py 206-209: the schedule entries are built and,
\* unless there is none, ensure_tasks_file is called; then the first pass
Start(p, io) ==
  /\ pc[p] = "start"
  /\ MayFail(io)
  /\ IF KindOf(p) = "sched" /\ schedule_entries = << >>
     THEN /\ io = "ok"
          /\ pc' = [pc EXCEPT ![p] = "done"]
          /\ UNCHANGED << registry, idx, nextRun, delayed, faults >>
     ELSE /\ faults' = Failed(io)
          /\ LET e == ensure_tasks_file(registry, io)
             IN  /\ registry' = e.file
                 /\ IF e.raised
                    THEN /\ pc' = [pc EXCEPT ![p] = "crashed"]
                         /\ UNCHANGED << idx, nextRun, delayed >>
                    ELSE IF KindOf(p) = "sched"
                    THEN /\ pc' = [pc EXCEPT ![p] = "tick"]
                         /\ nextRun' = [nextRun EXCEPT ![p] =
                                          [i \in DOMAIN schedule_entries |-> now]]
                         /\ delayed' = [i \in DOMAIN schedule_entries |-> FALSE]
                         /\ idx' = idx
                    ELSE /\ pc' = [pc EXCEPT ![p] = "check"]
                         /\ idx' = [idx EXCEPT ![p] = 1]
                         /\ UNCHANGED << nextRun, delayed >>
  /\ UNCHANGED << now, ttl, locks, calls, tickNow, taskId, wake, acqAt, overrun,
                  cfg, tick, bucket, newLines, nextDue >>

\* scheduler.py 51-55: a pass begins
SchedTick(p) ==
  /\ pc[p] = "tick"
  /\ tickNow' = [tickNow EXCEPT ![p] = now]
  /\ LET k == NextDue(nextRun[p], 0, now)
         last == IF k # 0 THEN k - 1 ELSE Len(nextRun[p])
         next_due == NextDueAfter(None, nextRun[p], 1..last)
     IN  /\ nextDue' = [nextDue EXCEPT ![p] = next_due]
         /\ IF k # 0
            THEN /\ idx' = [idx EXCEPT ![p] = k]
                 /\ pc' = [pc EXCEPT ![p] = "check"]
                 /\ wake' = wake
            ELSE /\ idx' = idx
                 /\ pc' = [pc EXCEPT ![p] = "sleep"]
                 /\ wake' = [wake EXCEPT ![p] = now + SleepFor(next_due, now)]
  /\ UNCHANGED << now, ttl, locks, registry, calls, nextRun, taskId, acqAt,
                  overrun, cfg, faults,
                  tick, delayed, bucket, newLines >>

\* scheduler.py 58-67, cli.py 215-218: the registry check
Check(p, io) ==
  /\ pc[p] = "check"
  /\ MayFail(io)
  /\ io = "ok" \/ registry.exists
  /\ faults' = Failed(io)
  /\ LET r == get_active_jobs_from_registry(registry, now, ttl, io)
     IN  /\ registry' = r.file
         /\ IF JobOf(p) \in RangeOfSeq(r.ret)
            THEN Advance(p, Rescheduled(p, tickNow[p]))
            ELSE /\ pc' = [pc EXCEPT ![p] = "acquire"]
                 /\ UNCHANGED << idx, nextRun, wake, delayed, nextDue >>
  /\ UNCHANGED << now, ttl, locks, calls, tickNow, taskId, acqAt, overrun, cfg,
                  tick, bucket, newLines >>

\* scheduler.py 68-77, cli.py 243-248: the lock, then the task id
Acquire(p, io) ==
  /\ pc[p] = "acquire"
  /\ MayFail(io)
  /\ io = "read_err" => locks[get_lock_path(JobOf(p))].exists
  /\ faults' = Failed(io)
  /\ LET lp == get_lock_path(JobOf(p))
         r == acquire_job_lock(locks[lp], now, ttl, io, PidOf(p), Host)
     IN  /\ locks' = [locks EXCEPT ![lp] = r.file]
         /\ IF r.ret
            THEN /\ pc' = [pc EXCEPT ![p] = "add"]
                 /\ taskId' = [taskId EXCEPT
                                 ![p] = generate_task_id(p, idx[p], now)]
                 /\ acqAt' = [acqAt EXCEPT ![p] = now]
                 /\ overrun' = (overrun \/ ttl <= 0)
                 /\ UNCHANGED << idx, nextRun, wake, delayed, nextDue >>
            ELSE /\ Advance(p, Rescheduled(p, tickNow[p]))
                 /\ UNCHANGED << taskId, acqAt, overrun >>
  /\ UNCHANGED << now, ttl, registry, calls, tickNow, cfg,
                  tick, bucket, newLines >>

\* scheduler.py 78, cli.py 249: the registry record; a raise is not caught
AddTask(p, io) ==
  /\ pc[p] = "add"
  /\ MayFail(io)
  /\ faults' = Failed(io)
  /\ LET r == add_task_to_registry(registry, now, JobOf(p), taskId[p],
                                   PidOf(p), Host, io)
     IN  /\ registry' = r.file
         /\ pc' = [pc EXCEPT ![p] = IF r.raised THEN "crashed" ELSE "body"]
  /\ UNCHANGED << now, ttl, locks, calls, idx, tickNow, nextRun, taskId, wake,
                  acqAt, overrun, cfg,
                  tick, delayed, bucket, newLines, nextDue >>

\* run_job returns, or raises an Exception
BodyOutcomes == {"returned", "raised"}

\* mutant: the finally block releases the lock and leaves the record
FinallyFirst_release == "release"

\* scheduler.py 90-91, cli.py 256-257: the finally block begins with
\* remove_task_from_registry
FinallyFirst == "remove"

\* scheduler.py 79-89, cli.py 250-255: the job body ends; an error is caught
\* and printed, and either way the finally block is next
BodyEnd(p, out) ==
  /\ pc[p] = "body"
  /\ out \in BodyOutcomes
  /\ pc' = [pc EXCEPT ![p] = FinallyFirst]
  /\ UNCHANGED << now, ttl, locks, registry, calls, idx, tickNow, nextRun,
                  taskId, wake, acqAt, overrun, cfg, faults,
                  tick, delayed, bucket, newLines, nextDue >>

\* scheduler.py 90-91, cli.py 256-257: the finally block, first half
RemoveTask(p, io) ==
  /\ pc[p] = "remove"
  /\ MayFail(io)
  /\ io = "ok" \/ registry.exists
  /\ faults' = Failed(io)
  /\ registry' = remove_task_from_registry(registry, taskId[p], io)
  /\ pc' = [pc EXCEPT ![p] = "release"]
  /\ UNCHANGED << now, ttl, locks, calls, idx, tickNow, nextRun, taskId, wake,
                  acqAt, overrun, cfg,
                  tick, delayed, bucket, newLines, nextDue >>

\* scheduler.py 92-93, cli.py 258: the finally block ends, next_run is set
Release(p, io) ==
  /\ pc[p] = "release"
  /\ MayFail(io)
  /\ io = "ok" \/ locks[get_lock_path(JobOf(p))].exists
  /\ faults' = Failed(io)
  /\ LET lp == get_lock_path(JobOf(p))
     IN  locks' = [locks EXCEPT ![lp] = release_job_lock(locks[lp], io)]
  /\ taskId' = [taskId EXCEPT ![p] = << >>]
  /\ acqAt' = [acqAt EXCEPT ![p] = 0]
  /\ Advance(p, Rescheduled(p, now))
  /\ UNCHANGED << now, ttl, registry, calls, tickNow, overrun, cfg,
                  tick, bucket, newLines >>

\* cli.py 206-209 with --retention-only: the one-shot run begins
StartRetentionOnly(p, io) ==
  /\ pc[p] = "start"
  /\ KindOf(p) = "cli"
  /\ MayFail(io)
  /\ faults' = Failed(io)
  /\ LET e == ensure_tasks_file(registry, io)
     IN  /\ registry' = e.file
         /\ IF e.raised
            THEN /\ pc' = [pc EXCEPT ![p] = "crashed"]
                 /\ idx' = idx
            ELSE /\ pc' = [pc EXCEPT ![p] = "rcheck"]
                 /\ idx' = [idx EXCEPT ![p] = 1]
  /\ UNCHANGED << now, ttl, locks, calls, tickNow, nextRun, taskId, wake,
                  acqAt, overrun, cfg, tick, delayed, bucket, newLines, nextDue >>

\* cli.py 215-219 with --retention-only: the registry check, then the
\* retention of the job unless a run of it is registered
CheckRetentionOnly(p, io) ==
  /\ pc[p] = "rcheck"
  /\ MayFail(io)
  /\ io = "ok" \/ registry.exists
  /\ faults' = Failed(io)
  /\ LET r == get_active_jobs_from_registry(registry, now, ttl, io)
     IN  /\ registry' = r.file
         /\ IF JobOf(p) \in RangeOfSeq(r.ret)
            THEN Advance(p, nextRun[p])
            ELSE /\ pc' = [pc EXCEPT ![p] = "retention"]
                 /\ UNCHANGED << idx, nextRun, wake, delayed, nextDue >>
  /\ UNCHANGED << now, ttl, locks, calls, tickNow, taskId, acqAt, overrun, cfg,
                  tick, bucket, newLines >>

\* apply_retention returns, or raises (a page of the listing or a delete
\* call failed, retention.py 16-22 and 52-57)
RetentionOutcomes == {"returned", "raised"}

\* cli.py 219-242: apply_retention is called outside every try, so when it
\* returns the loop continues and when it raises main ends with the
\* exception
RetentionOnly(p, out) ==
  /\ pc[p] = "retention"
  /\ out \in RetentionOutcomes
  /\ IF out = "returned"
     THEN Advance(p, nextRun[p])
     ELSE /\ pc' = [pc EXCEPT ![p] = "crashed"]
          /\ UNCHANGED << idx, nextRun, wake, delayed, nextDue >>
  /\ UNCHANGED << now, ttl, locks, registry, calls, tickNow, taskId, acqAt,
                  overrun, cfg, faults, tick, bucket, newLines >>

\* scheduler.py 99: time.sleep returns
Wake(p) ==
  /\ pc[p] = "sleep"
  /\ now >= wake[p]
  /\ pc' = [pc EXCEPT ![p] = "tick"]
  /\ UNCHANGED << now, ttl, locks, registry, calls, idx, tickNow, nextRun,
                  taskId, wake, acqAt, overrun, cfg, faults,
                  tick, delayed, bucket, newLines, nextDue >>

\* a second passes
Tick ==
  /\ now < SysMaxClock
  /\ now' = now + 1
  /\ overrun' = (overrun \/ \E p \in Procs : Holding(p) /\ now' - acqAt[p] >= ttl)
  /\ UNCHANGED << ttl, locks, registry, calls, pc, idx, tickNow, nextRun,
                  taskId, wake, acqAt, cfg, faults,
                  tick, delayed, bucket, newLines, nextDue >>

Next ==
  \/ \E p \in Procs, io \in {"ok", "mkdir_err"} : Start(p, io)
  \/ \E p \in Procs : SchedTick(p)
  \/ \E p \in Procs, io \in RegistryIo : Check(p, io)
  \/ \E p \in Procs, io \in AcquireIo : Acquire(p, io)
  \/ \E p \in Procs, io \in AddIo : AddTask(p, io)
  \/ \E p \in Procs, out \in BodyOutcomes : BodyEnd(p, out)
  \/ \E p \in Procs, io \in RegistryIo : RemoveTask(p, io)
  \/ \E p \in Procs, io \in ReleaseIo : Release(p, io)
  \/ \E p \in Procs : Wake(p)
  \/ Tick

Spec == InitSys /\ [][Next]_vars

\* the same two drivers when every file-system call succeeds
NextOk ==
  \/ \E p \in Procs : Start(p, "ok")
  \/ \E p \in Procs : SchedTick(p)
  \/ \E p \in Procs : Check(p, "ok")
  \/ \E p \in Procs : Acquire(p, "ok")
  \/ \E p \in Procs : AddTask(p, "ok")
  \/ \E p \in Procs, out \in BodyOutcomes : BodyEnd(p, out)
  \/ \E p \in Procs : RemoveTask(p, "ok")
  \/ \E p \in Procs : Release(p, "ok")
  \/ \E p \in Procs : Wake(p)
  \/ Tick

SpecOk == InitSys /\ [][NextOk]_vars

\* ------------------------------------------------ one driver, several jobs
\* Either the scheduler or a one-shot run, with or without --retention-only,
\* works through a configuration of two jobs; its file-system calls succeed
\* and the job bodies and retention calls may raise.  Another host may have
\* a run of one job registered.
InitJobs ==
  /\ now = StartTime
  /\ ttl \in Ttls \ {0}
  /\ cfg \in { << [job |-> JobB, every |-> StrEvery(<< "1" >>)],
                  [job |-> JobA, every |-> NumEvery(2)] >>,
               << [job |-> JobA, every |-> StrEvery(<< "1" >>)],
                  [job |-> JobB, every |-> StrEvery(<< "1" >>)] >> }
  /\ tick = TickInterval
  /\ delayed = << >>
  /\ bucket = << >>
  /\ faults = 0
  /\ locks = [lp \in LockPaths |-> NoFile]
  /\ registry \in
        {NoReg, [exists |-> TRUE,
                 lines |-> << RegistryEntry(StartTime, JobA, << "t0" >>,
                                            << "p0" >>, << "h2" >>) >>]}
  /\ calls = << >>
  /\ \E d \in Procs : pc = [p \in Procs |-> IF p = d THEN "start" ELSE "off"]
  /\ idx = [p \in Procs |-> 0]
  /\ tickNow = [p \in Procs |-> 0]
  /\ nextRun = [p \in Procs |-> << >>]
  /\ taskId = [p \in Procs |-> << >>]
  /\ wake = [p \in Procs |-> 0]
  /\ acqAt = [p \in Procs |-> 0]
  /\ overrun = FALSE
  /\ nextDue = [p \in Procs |-> None]
  /\ newLines = [p \in Procs |-> NoLines]

NextJobs ==
  \/ \E p \in Procs : Start(p, "ok")
  \/ \E p \in Procs : StartRetentionOnly(p, "ok")
  \/ \E p \in Procs : SchedTick(p)
  \/ \E p \in Procs : Check(p, "ok")
  \/ \E p \in Procs : CheckRetentionOnly(p, "ok")
  \/ \E p \in Procs, out \in RetentionOutcomes : RetentionOnly(p, out)
  \/ \E p \in Procs : Acquire(p, "ok")
  \/ \E p \in Procs : AddTask(p, "ok")
  \/ \E p \in Procs, out \in BodyOutcomes : BodyEnd(p, out)
  \/ \E p \in Procs : RemoveTask(p, "ok")
  \/ \E p \in Procs : Release(p, "ok")
  \/ \E p \in Procs : Wake(p)
  \/ Tick

SpecJobs == InitJobs /\ [][NextJobs]_vars

\* --------------------------------------------------- the scheduler, timed
\* One scheduler process (p1) whose file-system calls succeed.  Another host
\* may have left a registry record and a lock behind.  Time passes while a
\* job body executes and while the scheduler sleeps; the other steps of the
\* loop take no time, and a sleep ends when it is due.
SchedConfigs ==
  { << [job |-> JobB, every |-> StrEvery(<< "1" >>)],
       [job |-> JobA, every |-> NumEvery(2)] >>,
    << [job |-> JobB, every |-> NoEvery],
       [job |-> JobA, every |-> StrEvery(<< "1", "s" >>)] >>,
    << [job |-> JobA, every |-> StrEvery(<< "0" >>)],
       [job |-> JobB, every |-> NumEvery(0 - 1)] >> }

TickIntervals == 0..TickInterval

OtherPid == << "p0" >>
OtherHost == << "h2" >>

InitSched ==
  /\ now = StartTime
  /\ ttl \in Ttls \ {0}
  /\ cfg \in SchedConfigs
  /\ tick \in TickIntervals
  /\ delayed = << >>
  /\ bucket = << >>
  /\ faults = 0
  /\ locks \in [LockPaths ->
        {NoFile, [exists |-> TRUE,
                  text |-> LockRecord(StartTime, OtherPid, OtherHost)]}]
  /\ registry \in
        {NoReg, [exists |-> TRUE,
                 lines |-> << RegistryEntry(StartTime, JobA, << "t0" >>,
                                            OtherPid, OtherHost) >>]}
  /\ calls = << >>
  /\ pc = [p \in Procs |-> IF p = "p1" THEN "start" ELSE "off"]
  /\ idx = [p \in Procs |-> 0]
  /\ tickNow = [p \in Procs |-> 0]
  /\ nextRun = [p \in Procs |-> << >>]
  /\ taskId = [p \in Procs |-> << >>]
  /\ wake = [p \in Procs |-> 0]
  /\ acqAt = [p \in Procs |-> 0]
  /\ overrun = FALSE
  /\ nextDue = [p \in Procs |-> None]
  /\ newLines = [p \in Procs |-> NoLines]

\* a second passes, in a job body (scheduler.py 80-87) or in time.sleep (99)
SchedClock ==
  /\ now < SchedMaxClock
  /\ \/ pc["p1"] = "body"
     \/ pc["p1"] = "sleep" /\ now < wake["p1"]
  /\ now' = now + 1
  /\ overrun' = (overrun \/ (Holding("p1") /\ now' - acqAt["p1"] >= ttl))
  /\ delayed' = [i \in DOMAIN delayed |->
                   delayed[i] \/ (pc["p1"] = "body" /\ nextRun["p1"][i] <= now)]
  /\ UNCHANGED << ttl, locks, registry, calls, pc, idx, tickNow, nextRun,
                  taskId, wake, acqAt, cfg, faults, tick, bucket, newLines, nextDue >>

NextSched ==
  \/ Start("p1", "ok")
  \/ SchedTick("p1")
  \/ Check("p1", "ok")
  \/ Acquire("p1", "ok")
  \/ AddTask("p1", "ok")
  \/ \E out \in BodyOutcomes : BodyEnd("p1", out)
  \/ RemoveTask("p1", "ok")
  \/ Release("p1", "ok")
  \/ Wake("p1")
  \/ SchedClock

SpecSched == InitSched /\ [][NextSched]_vars

\* ------------------------------------------- acquire, step by step
\* Two processes call acquire_job_lock for the same job.  A call is two
\* steps, the look at the lock file (locks.py 16-24) and the write of the
\* record (25-31), and the steps of the two calls interleave freely.  The
\* lock file is absent at first, or holds the record of an earlier run.
RaceJob == JobA

\* mutant: the write looks at the lock file a second time
WriteReturns_recheck(f, now_ts, ttl_seconds) ==
  ~acquire_job_lock_fresh(f, now_ts, ttl_seconds, "ok")

\* locks.py 25-31: the file is written whatever it holds by now, and the
\* call returns True
WriteReturns(f, now_ts, ttl_seconds) == TRUE

InitRace ==
  /\ now = StartTime
  /\ ttl \in Ttls
  /\ locks \in [LockPaths ->
        {NoFile} \cup { [exists |-> TRUE,
                         text |-> LockRecord(t, OtherPid, OtherHost)] :
                           t \in (StartTime - MaxTtl)..StartTime }]
  /\ registry = NoReg
  /\ calls = << >>
  /\ bucket = << >>
  /\ pc = [p \in Procs |-> "acq_check"]
  /\ idx = [p \in Procs |-> 0]
  /\ tickNow = [p \in Procs |-> 0]
  /\ nextRun = [p \in Procs |-> << >>]
  /\ taskId = [p \in Procs |-> << >>]
  /\ wake = [p \in Procs |-> 0]
  /\ acqAt = [p \in Procs |-> 0]
  /\ overrun = FALSE
  /\ cfg = << >>
  /\ faults = 0
  /\ tick = 0
  /\ delayed = << >>
  /\ nextDue = [p \in Procs |-> None]
  /\ newLines = [p \in Procs |-> NoLines]

\* locks.py 16-24: the early return False, or on to the write
AcquireCheck(p) ==
  /\ pc[p] = "acq_check"
  /\ pc' = [pc EXCEPT ![p] =
              IF acquire_job_lock_fresh(locks[get_lock_path(RaceJob)], now,
                                        ttl, "ok")
              THEN "refused" ELSE "acq_write"]
  /\ UNCHANGED << now, ttl, locks, registry, calls, idx, tickNow, nextRun,
                  taskId, wake, acqAt, overrun, cfg, faults, tick, delayed,
                  nextDue, bucket, newLines >>

\* locks.py 25-31: the record is written and the call returns
AcquireWrite(p) ==
  /\ pc[p] = "acq_write"
  /\ LET lp == get_lock_path(RaceJob)
     IN  IF WriteReturns(locks[lp], now, ttl)
         THEN /\ locks' = [locks EXCEPT ![lp] =
                            [exists |-> TRUE,
                             text |-> LockRecord(now, PidOf(p), Host)]]
              /\ pc' = [pc EXCEPT ![p] = "acquired"]
              /\ acqAt' = [acqAt EXCEPT ![p] = now]
         ELSE /\ pc' = [pc EXCEPT ![p] = "refused"]
              /\ UNCHANGED << locks, acqAt >>
  /\ UNCHANGED << now, ttl, registry, calls, idx, tickNow, nextRun, taskId,
                  wake, overrun, cfg, faults, tick, delayed, nextDue, bucket, newLines >>

NextRace ==
  \/ \E p \in Procs : AcquireCheck(p)
  \/ \E p \in Procs : AcquireWrite(p)
  \/ LockTick

SpecRace == InitRace /\ [][NextRace]_vars

\* ------------------------------------------- the registry, step by step
\* Two processes call add, active_jobs and remove on one tasks file. The
\* calls that rewrite the file are split where the code is: read_text, then
\* (when the lines differ) write_text; nothing orders the two halves against
\* the calls of the other process.
RaceTid(p) == IF p = "p1" THEN << "t1" >> ELSE << "t2" >>

\* the tasks file holds at most one record of another host, of any age
InitRegRace ==
  /\ now = StartTime
  /\ ttl \in Ttls
  /\ locks = [lp \in LockPaths |-> NoFile]
  /\ registry \in
        { [exists |-> TRUE, lines |-> << >>] } \cup
        { [exists |-> TRUE,
           lines |-> << RegistryEntry(t, RaceJob, << "t0" >>, OtherPid,
                                      OtherHost) >>] :
            t \in (StartTime - MaxTtl)..StartTime }
  /\ calls = << >>
  /\ bucket = << >>
  /\ pc = [p \in Procs |-> "idle"]
  /\ idx = [p \in Procs |-> 0]
  /\ tickNow = [p \in Procs |-> 0]
  /\ nextRun = [p \in Procs |-> << >>]
  /\ taskId = [p \in Procs |-> << >>]
  /\ wake = [p \in Procs |-> 0]
  /\ acqAt = [p \in Procs |-> 0]
  /\ overrun = FALSE
  /\ cfg = << >>
  /\ faults = 0
  /\ tick = 0
  /\ delayed = << >>
  /\ nextDue = [p \in Procs |-> None]
  /\ newLines = [p \in Procs |-> NoLines]

\* tasks_registry.py 49-59: the record is appended with one write
RaceAdd(p) ==
  /\ pc[p] = "idle"
  /\ taskId[p] = << >>
  /\ registry' = add_task_to_registry(registry, now, RaceJob, RaceTid(p),
                                      PidOf(p), Host, "ok").file
  /\ taskId' = [taskId EXCEPT ![p] = RaceTid(p)]
  /\ UNCHANGED << now, ttl, locks, calls, pc, idx, tickNow, nextRun, wake,
                  acqAt, overrun, cfg, faults, tick, delayed, nextDue,
                  newLines, bucket >>

\* tasks_registry.py 19-40: active_jobs reads the file and computes
\* kept_lines
RaceActiveRead(p) ==
  /\ pc[p] = "idle"
  /\ LET r == get_active_jobs_from_registry(registry, now, ttl, "ok")
     IN  newLines' = [newLines EXCEPT ![p] =
                        IF r.file # registry THEN SomeLines(r.file.lines)
                        ELSE NoLines]
  /\ pc' = [pc EXCEPT ![p] = "active_write"]
  /\ UNCHANGED << now, ttl, locks, registry, calls, idx, tickNow, nextRun,
                  taskId, wake, acqAt, overrun, cfg, faults, tick, delayed,
                  nextDue, bucket >>

\* tasks_registry.py 63-72: remove reads the file and computes new_lines
RaceRemoveRead(p) ==
  /\ pc[p] = "idle"
  /\ taskId[p] # << >>
  /\ LET f == remove_task_from_registry(registry, taskId[p], "ok")
     IN  newLines' = [newLines EXCEPT ![p] =
                        IF f # registry THEN SomeLines(f.lines) ELSE NoLines]
  /\ pc' = [pc EXCEPT ![p] = "remove_write"]
  /\ UNCHANGED << now, ttl, locks, registry, calls, idx, tickNow, nextRun,
                  taskId, wake, acqAt, overrun, cfg, faults, tick, delayed,
                  nextDue, bucket >>

\* tasks_registry.py 41-46, 73-74: write_text of the lines computed, when
\* they differ from the lines read; the call returns.  A process is through
\* with the registry once its remove has returned (scheduler.py 90-99).
RaceWrite(p) ==
  /\ pc[p] \in {"active_write", "remove_write"}
  /\ registry' = IF newLines[p].some
                 THEN RewriteRegistry(registry, newLines[p].val, "ok")
                 ELSE registry
  /\ newLines' = [newLines EXCEPT ![p] = NoLines]
  /\ pc' = [pc EXCEPT ![p] = IF pc[p] = "remove_write" THEN "removed"
                             ELSE "idle"]
  /\ UNCHANGED << now, ttl, locks, calls, idx, tickNow, nextRun, taskId, wake,
                  acqAt, overrun, cfg, faults, tick, delayed, nextDue,
                  bucket >>

NextRegRace ==
  \/ \E p \in Procs : RaceAdd(p)
  \/ \E p \in Procs : RaceActiveRead(p)
  \/ \E p \in Procs : RaceRemoveRead(p)
  \/ \E p \in Procs : RaceWrite(p)
  \/ LockTick

SpecRegRace == InitRegRace /\ [][NextRegRace]_vars

\* ------------------------------------------- the schedule entries alone
\* characters of an "every" string: digits, unit letters, an upper-case unit
\* letter, a blank, a letter that is no unit, a superscript digit
EveryChars == {"0", "3", "s", "m", "h", "d", "M", " ", "x", "^2"}

EveryPool ==
  {NoEvery, OtherEvery} \cup { NumEvery(n) : n \in (0 - 1)..2 }
    \cup { StrEvery(str) : str \in SeqsUpTo(EveryChars, MaxStr) }

\* a scheduler is about to start on one job with any "every" value
InitParse ==
  /\ now = StartTime
  /\ ttl = MaxTtl
  /\ cfg \in { << [job |-> JobA, every |-> v] >> : v \in EveryPool }
  /\ tick = TickInterval
  /\ delayed = << >>
  /\ bucket = << >>
  /\ faults = 0
  /\ locks = [lp \in LockPaths |-> NoFile]
  /\ registry = NoReg
  /\ calls = << >>
  /\ pc = [p \in Procs |-> IF p = "p1" THEN "start" ELSE "off"]
  /\ idx = [p \in Procs |-> 0]
  /\ tickNow = [p \in Procs |-> 0]
  /\ nextRun = [p \in Procs |-> << >>]
  /\ taskId = [p \in Procs |-> << >>]
  /\ wake = [p \in Procs |-> 0]
  /\ acqAt = [p \in Procs |-> 0]
  /\ overrun = FALSE
  /\ nextDue = [p \in Procs |-> None]
  /\ newLines = [p \in Procs |-> NoLines]

\* scheduler.py 32-50
NextParse == Start("p1", "ok")

SpecParse == InitParse /\ [][NextParse]_vars

\* ---------------------------------------------------- the retention alone
ObjectKeys == 1..MaxObjs

\* the listings of up to MaxObjs objects, no key twice, in any order
Listings ==
  { ls \in SeqsUpTo([key : ObjectKeys, lm : 0..MaxLm], MaxObjs) :
      \A i \in DOMAIN ls, j \in DOMAIN ls : i # j => ls[i].key # ls[j].key }

\* a bucket with some objects under the prefix, none modified today
InitRet ==
  /\ now = MaxLm + 1
  /\ ttl = MaxTtl
  /\ locks = [lp \in LockPaths |-> NoFile]
  /\ registry = NoReg
  /\ calls = << >>
  /\ bucket \in Listings
  /\ NoDrivers

\* the outcomes of the S3 calls that a call of apply_retention gets to make
RetentionIo(max_keep, max_age_days, dry_run, list_io, del_io) ==
  /\ list_io \in 0..NumPages(Len(bucket))
  /\ NoPolicy(max_keep, max_age_days) => list_io = 0
  /\ (dry_run \/ list_io # 0) => del_io = 0
  /\ del_io # 0 =>
       del_io <= Len(Chunks(apply_retention(bucket, max_keep, max_age_days,
                                            now), chunk_size))

\* retention.py 5-58: the call is made; a live run deletes the objects of
\* the batches that went through
RetentionCall(max_keep, max_age_days, dry_run, list_io, del_io) ==
  /\ RetentionIo(max_keep, max_age_days, dry_run, list_io, del_io)
  /\ \E r \in { apply_retention_call(bucket, max_keep, max_age_days, now,
                                      dry_run, list_io, del_io) } :
      /\ bucket' = SelectSeq(bucket, LAMBDA o : o.key \notin r.deleted)
      /\ calls' = Append(calls,
            [op |-> "retention", max_keep |-> max_keep,
             max_age_days |-> max_age_days, dry_run |-> dry_run,
             list_io |-> list_io, del_io |-> del_io,
             listing |-> bucket, sorted |-> SortByLm(bucket),
             ret |-> apply_retention(bucket, max_keep, max_age_days, now),
             at |-> now, requests |-> r.requests, raised |-> r.raised,
             out |-> r.out, dry |-> r.dry, sent |-> r.sent,
             after |-> bucket'])
      /\ UNCHANGED << now, ttl, locks, registry, drv >>

\* a first call of apply_retention, with any policy
ApplyRetention(max_keep, max_age_days, dry_run, list_io, del_io) ==
  /\ Len(calls) = 0
  /\ RetentionCall(max_keep, max_age_days, dry_run, list_io, del_io)

\* the live run that follows a dry run, with the policy of the dry run
LiveRun(list_io, del_io) ==
  /\ Len(calls) = 1
  /\ calls[1].dry_run
  /\ RetentionCall(calls[1].max_keep, calls[1].max_age_days, FALSE,
                   list_io, del_io)

\* every S3 call succeeds
NextRet ==
  \/ \E max_keep \in 0..MaxKeep, max_age_days \in 0..MaxAgeDays,
        dry_run \in BOOLEAN :
          ApplyRetention(max_keep, max_age_days, dry_run, 0, 0)
  \/ LiveRun(0, 0)

SpecRet == InitRet /\ [][NextRet]_vars

\* ------------------------------------------------ claims on the lock manager
IsAcquire(c) == c.op = "acquire"
IsRelease(c) == c.op = "release"

\* the file holds a record acquired_at|pid|hostname
HoldsAcquiredAt(f) ==
  f.exists /\ Len(f.text) = 3 /\ ParseFloat(f.text[1]) # BadTs

\* age of an existing lock file at time t; an empty file counts as written
\* at time 0 (locks.py line 20)
LockAge(f, t) == IF HoldsAcquiredAt(f) THEN t - ParseFloat(f.text[1]) ELSE t

HeldAt(f, t) == HoldsAcquiredAt(f) /\ LockAge(f, t) < ttl

\* two consecutive calls on the same lock file
Pair == Len(calls) = 2 /\ calls[1].path = calls[2].path

\* C2: an acquire whose file-system calls succeed, on a lock file holding an
\* acquired_at less than ttl old, returns false and leaves the file as it
\* was; of two such acquires in a row on one lock, less than ttl apart and
\* with no release between, never both return true, and exactly one (the
\* first) does when the first does not find the lock held.
C2_HeldLockRefuses ==
  /\ \A i \in DOMAIN calls :
        (IsAcquire(calls[i]) /\ calls[i].io = "ok"
           /\ HeldAt(calls[i].pre, calls[i].at))
        => (~calls[i].ret /\ calls[i].post = calls[i].pre)
  /\ (Pair /\ IsAcquire(calls[1]) /\ IsAcquire(calls[2])
        /\ calls[1].io = "ok" /\ calls[2].io = "ok"
        /\ calls[2].at - calls[1].at < ttl)
     => /\ ~(calls[1].ret /\ calls[2].ret)
        /\ ~HeldAt(calls[1].pre, calls[1].at) => (calls[1].ret /\ ~calls[2].ret)

C2_Witness ==
  /\ Pair /\ IsAcquire(calls[1]) /\ IsAcquire(calls[2])
  /\ calls[1].io = "ok" /\ calls[2].io = "ok"
  /\ calls[1].job # calls[2].job
  /\ calls[1].at < calls[2].at /\ calls[2].at - calls[1].at < ttl
  /\ calls[1].ret /\ ~calls[2].ret /\ calls[2].post = calls[2].pre

\* the characters of the model that are outside [a-zA-Z0-9_.-]
OutsideSafeClass == {"|", "/"}

\* a job name with every character outside the class replaced by "_"
Sanitized(n) ==
  [i \in DOMAIN n |-> IF n[i] \in OutsideSafeClass THEN "_" ELSE n[i]]

\* C27: the lock file of a job is named by the job name with every character
\* outside [a-zA-Z0-9_.-] replaced by "_"; so when a job took the lock and,
\* less than ttl later, a job of another name with the same sanitized form
\* calls acquire, the call is made on the same lock file and returns false.
C27_CollidingNamesShareLock ==
  /\ \A i \in DOMAIN calls :
        IsAcquire(calls[i]) => calls[i].path = Sanitized(calls[i].job)
  /\ (/\ Len(calls) = 2 /\ IsAcquire(calls[1]) /\ IsAcquire(calls[2])
      /\ calls[1].job # calls[2].job
      /\ Sanitized(calls[1].job) = Sanitized(calls[2].job)
      /\ calls[1].ret
      /\ calls[2].at - calls[1].at < ttl)
     => /\ calls[2].path = calls[1].path
        /\ ~calls[2].ret
        /\ calls[2].post = calls[1].post

\* "j/" took the lock, "j|" is refused a second later by another process
C27_Witness ==
  /\ Len(calls) = 2 /\ IsAcquire(calls[1]) /\ IsAcquire(calls[2])
  /\ calls[1].job = << "j", "/" >> /\ calls[2].job = << "j", "|" >>
  /\ calls[1].pid # calls[2].pid
  /\ calls[1].ret /\ ~calls[2].ret
  /\ calls[2].at = calls[1].at + 1
  /\ locks[<< "j", "_" >>].text = LockRecord(calls[1].at, calls[1].pid, Host)

\* process p has found the lock absent or stale
PassedCheck(p) == pc[p] \in {"acq_write", "acquired"}

\* C30: the look at the lock file and the write of the record are two
\* steps with nothing to tie them together: once two processes calling
\* acquire for one job have both found the lock absent or stale, whichever
\* of them writes first, neither call is refused; each returns true when it
\* has written, and the file then holds the record of the one that wrote
\* last.
C30_BothAcquire ==
  [][ (\A p \in Procs : PassedCheck(p))
      => /\ \A p \in Procs : pc'[p] \in {"acq_write", "acquired"}
         /\ \A p \in Procs :
               (pc[p] = "acq_write" /\ pc'[p] = "acquired")
               => locks'[get_lock_path(RaceJob)].text
                    = LockRecord(now, PidOf(p), Host) ]_vars

\* both calls have returned true, the second a second after the first and
\* within the TTL of the first one's record, which is overwritten
C30_Witness ==
  /\ \A p \in Procs : pc[p] = "acquired"
  /\ acqAt["p2"] = acqAt["p1"] + 1
  /\ acqAt["p2"] - acqAt["p1"] < ttl
  /\ locks[get_lock_path(RaceJob)].text = LockRecord(acqAt["p2"], PidOf("p2"), Host)

\* C3: an acquire whose file-system calls succeed returns true exactly when
\* there is no lock file or the existing lock's age is >= ttl (age = ttl
\* included), and then the lock file holds a record whose acquired_at is the
\* time of the call.
C3_AcquireIffFreeOrStale ==
  \A i \in DOMAIN calls :
    LET c == calls[i]
    IN  (IsAcquire(c) /\ c.io = "ok")
        => /\ c.ret <=> (~c.pre.exists \/ LockAge(c.pre, c.at) >= ttl)
           /\ c.ret => /\ HoldsAcquiredAt(c.post)
                       /\ ParseFloat(c.post.text[1]) = c.at
                       /\ c.post.text = LockRecord(c.at, c.pid, Host)

C3_Witness ==
  /\ Len(calls) > 0
  /\ LET c == calls[Len(calls)]
     IN  /\ IsAcquire(c) /\ c.io = "ok" /\ ttl > 0
         /\ HoldsAcquiredAt(c.pre) /\ LockAge(c.pre, c.at) = ttl
         /\ c.ret /\ ParseFloat(c.post.text[1]) = c.at

\* C4: an acquire during which a file-system call fails (reading the
\* existing lock file, creating the directory, opening or writing the
\* record) returns false.
C4_IoErrorRefuses ==
  \A i \in DOMAIN calls :
    LET c == calls[i]
    IN  (IsAcquire(c) /\ c.io # "ok" /\ (c.io = "read_err" => c.pre.exists))
        => ~c.ret

\* C5: a release whose unlink succeeds leaves no lock file, whether or not
\* one was there; a release that follows it changes nothing; an acquire that
\* follows it succeeds whatever the ttl and the age of the deleted lock.
C5_ReleaseDeletes ==
  /\ \A i \in DOMAIN calls :
        (IsRelease(calls[i]) /\ calls[i].io = "ok") => calls[i].post = NoFile
  /\ (Pair /\ IsRelease(calls[1]) /\ calls[1].io = "ok")
     => /\ IsRelease(calls[2]) => calls[2].post = calls[2].pre
        /\ (IsAcquire(calls[2]) /\ calls[2].io = "ok") => calls[2].ret

C5_Witness ==
  /\ Pair /\ IsRelease(calls[1]) /\ calls[1].io = "ok"
  /\ HeldAt(calls[1].pre, calls[1].at)
  /\ IsAcquire(calls[2]) /\ calls[2].io = "ok" /\ calls[2].at = calls[1].at
  /\ calls[2].ret

\* --------------------------------------------------- claims on the registry
IsActiveJobs(c) == c.op = "active_jobs"
IsAdd(c) == c.op = "add"
IsRemove(c) == c.op = "remove"

NamesOf(ls) == [i \in DOMAIN ls |-> ls[i][2]]

\* a record started_at|job_name|task_id|pid|hostname with a readable time
FiveFields(l) == Len(l) = 5 /\ ParseFloat(l[1]) # BadTs
FreshAt(l, t) == t - ParseFloat(l[1]) < ttl

\* C6: on a file of five-field records, an active_jobs whose file-system
\* calls succeed returns the job names of the records of age < ttl (a record
\* of age ttl is stale), and leaves exactly those records in the file, in
\* their original order.
C6_ActiveJobsPrunes ==
  \A i \in DOMAIN calls :
    LET c == calls[i]
        fresh == SelectSeq(c.pre.lines, LAMBDA l : FreshAt(l, c.at))
    IN  (IsActiveJobs(c) /\ c.io = "ok" /\ c.pre.exists
           /\ \A l \in RangeOfSeq(c.pre.lines) : FiveFields(l))
        => /\ c.ret = NamesOf(fresh)
           /\ c.post = [exists |-> TRUE, lines |-> fresh]

C6_Witness ==
  /\ Len(calls) > 0
  /\ LET c == calls[Len(calls)]
     IN  /\ IsActiveJobs(c) /\ c.io = "ok" /\ ttl > 0
         /\ Len(c.pre.lines) = 2
         /\ FiveFields(c.pre.lines[1]) /\ FiveFields(c.pre.lines[2])
         /\ c.at - ParseFloat(c.pre.lines[1][1]) = ttl
         /\ FreshAt(c.pre.lines[2], c.at)
         /\ c.ret = << c.pre.lines[2][2] >>
         /\ c.post.lines = << c.pre.lines[2] >>

\* C7 as stated: after an active_jobs whose file-system calls succeed, no line
\* whose field count differs from five or whose timestamp cannot be parsed
\* is left in the file, and the names returned are those of the fresh
\* five-field records only.
C7_FiveFieldsOrDropped ==
  \A i \in DOMAIN calls :
    LET c == calls[i]
        good == SelectSeq(c.pre.lines,
                          LAMBDA l : FiveFields(l) /\ FreshAt(l, c.at))
    IN  (IsActiveJobs(c) /\ c.io = "ok" /\ c.pre.exists)
        => /\ \A l \in RangeOfSeq(c.post.lines) : FiveFields(l)
           /\ c.ret = NamesOf(good)

\* C7 as amended: after an active_jobs whose file-system calls succeed, no
\* line with fewer than three fields or with a timestamp that cannot be
\* parsed is left in the file, and the names returned are those of the fresh
\* lines that have a readable timestamp and at least three fields.
C7_ShortOrUnreadableDropped ==
  \A i \in DOMAIN calls :
    LET c == calls[i]
        Short(l) == Len(l) < 3 \/ ParseFloat(l[1]) = BadTs
        good == SelectSeq(c.pre.lines,
                          LAMBDA l : ~Short(l) /\ FreshAt(l, c.at))
    IN  (IsActiveJobs(c) /\ c.io = "ok" /\ c.pre.exists)
        => /\ \A l \in RangeOfSeq(c.post.lines) : ~Short(l)
           /\ c.ret = NamesOf(good)

C7_Witness ==
  /\ Len(calls) > 0
  /\ LET c == calls[Len(calls)]
     IN  /\ IsActiveJobs(c) /\ c.io = "ok"
         /\ Len(c.pre.lines) = 2
         /\ Len(c.pre.lines[1]) = 2
         /\ Len(c.pre.lines[2]) = 3
         /\ c.post.lines = << c.pre.lines[2] >>
         /\ c.ret = << c.pre.lines[2][2] >>

\* C8: of two consecutive active_jobs calls whose file-system calls succeed,
\* with no record of the file fresh at the first and stale at the second, the
\* second returns what the first returned and leaves the file as it found it.
C8_PruneIdempotent ==
  (/\ Len(calls) = 2
   /\ IsActiveJobs(calls[1]) /\ IsActiveJobs(calls[2])
   /\ calls[1].io = "ok" /\ calls[2].io = "ok"
   /\ \A l \in RangeOfSeq(calls[1].pre.lines) :
         ParseFloat(l[1]) # BadTs
         => (FreshAt(l, calls[1].at) <=> FreshAt(l, calls[2].at)))
  => /\ calls[2].ret = calls[1].ret
     /\ calls[2].post = calls[2].pre

C8_Witness ==
  /\ Len(calls) = 2
  /\ IsActiveJobs(calls[1]) /\ IsActiveJobs(calls[2])
  /\ calls[1].io = "ok" /\ calls[2].io = "ok"
  /\ calls[1].at < calls[2].at
  /\ calls[1].post # calls[1].pre
  /\ Len(calls[1].ret) > 0
  /\ calls[2].ret = calls[1].ret
  /\ calls[2].post = calls[2].pre

\* the task id appears on the line
Carries(l, tid) == tid \in RangeOfSeq(l)

C10_AddAppendsOne ==
  \A i \in DOMAIN calls :
    LET c == calls[i]
        n == Len(c.pre.lines)
    IN  (IsAdd(c) /\ c.io = "ok")
        => /\ c.post.exists /\ ~c.raised
           /\ Len(c.post.lines) = n + 1
           /\ SubSeq(c.post.lines, 1, n) = c.pre.lines
           /\ JoinFields(c.post.lines[n + 1]) =
                JoinFields(<< FormatTs(c.at), c.job, c.tid, c.pid, Host >>)

C10_Witness ==
  /\ Len(calls) > 0
  /\ LET c == calls[Len(calls)]
     IN  /\ IsAdd(c) /\ c.io = "ok" /\ c.at > StartTime
         /\ Len(c.pre.lines) = 2 /\ Len(c.post.lines) = 3
         /\ c.post.lines[3][1] = FormatTs(c.at)
         /\ c.post.lines[3][2] = c.job

\* ---------------------------------------------------- claims on the drivers
Running(p) == pc[p] = "body"

\* C1: as long as no run has held its lock for lock_ttl seconds or more (so
\* every job body has finished within lock_ttl), with every acquire call one
\* atomic step, no two processes execute the body of the same job name at
\* the same time.
C1_AtMostOneActive ==
  ~overrun =>
    \A p \in Procs, q \in Procs :
      (p # q /\ Running(p) /\ Running(q)) => JobOf(p) # JobOf(q)

\* C11: no I/O failure on the registry file stops a driver: whatever call
\* fails (ensure, add, remove, active_jobs), it returns without raising and
\* the scheduler or the one-shot run goes on to its next step.
C11_RegistryIoIgnored == \A p \in Procs : pc[p] # "crashed"

\* the scheduler process
Sched == "p1"
\* the entry the scheduler is working on
Entry == schedule_entries[idx[Sched]]
\* the scheduler went on to another entry, or to sleep
MovedOn == pc'[Sched] # pc[Sched] \/ idx'[Sched] # idx[Sched]

\* what a skip of the entry at hand leaves behind: the scheduler is at the
\* next due entry or asleep, next_run is the pass's start plus the interval,
\* no task id was generated, no record was added, no lock file changed
SkippedEntry ==
  /\ pc'[Sched] \in {"check", "sleep"}
  /\ nextRun'[Sched][idx[Sched]] = tickNow[Sched] + Entry.interval
  /\ taskId' = taskId
  /\ locks' = locks
  /\ \A l \in RangeOfSeq(registry'.lines) : l \in RangeOfSeq(registry.lines)

\* C12: when the registry reports the job of the due entry active, the
\* scheduler's next step skips the entry without calling acquire; when it
\* does not and acquire returns false, the next step skips it too.  A skip
\* runs no body, adds no record, releases no lock and sets next_run to the
\* start time of the pass plus the interval.
C12_SkipReschedules ==
  [][ /\ (/\ pc[Sched] = "check" /\ MovedOn
          /\ JobOf(Sched) \in RangeOfSeq(
                get_active_jobs_from_registry(registry, now, ttl, "ok").ret))
         => SkippedEntry
      /\ (/\ pc[Sched] = "acquire" /\ MovedOn
          /\ ~acquire_job_lock(locks[get_lock_path(JobOf(Sched))], now, ttl,
                               "ok", PidOf(Sched), Host).ret)
         => (SkippedEntry /\ registry' = registry)
    ]_vars

\* the pass ran the body of the first entry for a while and then skipped the
\* second, whose job another host has registered
C12_Witness ==
  /\ pc[Sched] = "sleep" /\ Len(schedule_entries) = 2
  /\ tickNow[Sched] < now
  /\ nextRun[Sched][1] = now + schedule_entries[1].interval
  /\ nextRun[Sched][2] = tickNow[Sched] + schedule_entries[2].interval
  /\ \E l \in RangeOfSeq(registry.lines) :
        l = RegistryEntry(StartTime, schedule_entries[2].job, << "t0" >>,
                          OtherPid, OtherHost)
  /\ \A lp \in LockPaths : ~locks[lp].exists

\* C13: when a driver leaves the finally block of a run (to go on to the
\* next entry or job) and no file-system call has failed, the registry holds
\* no record carrying the run's task id and the job's lock file is gone.
C13_CleanupAfterBody ==
  [][ \A p \in Procs :
        (pc[p] = "release" /\ pc'[p] # "release" /\ faults' = 0)
        => /\ ~locks'[get_lock_path(JobOf(p))].exists
           /\ \A l \in RangeOfSeq(registry'.lines) : ~Carries(l, taskId[p])
    ]_vars

\* where a process is while it is inside the loop of schedule_loop
InLoop ==
  {"tick", "check", "acquire", "add", "body", "remove", "release", "sleep"}

\* C14: once the scheduler is in its loop (it started with at least one
\* schedule entry) no step takes it out of the loop: whatever a job body
\* does, whatever is skipped, it stays in the loop and never ends.
C14_LoopNeverEnds ==
  [][ \A p \in Procs :
        (KindOf(p) = "sched" /\ pc[p] \in InLoop) => pc'[p] \in InLoop ]_vars

\* C15: when the scheduler leaves the finally block of a run, the entry's
\* next_run is the time of that moment (the body has ended) plus the
\* interval, not the start time of the pass plus the interval; the entry is
\* then not due in the pass at hand, and an entry is only ever started at or
\* after its next_run, hence an interval or more after its previous run ended.
C15_NextRunFromCompletion ==
  /\ [][ (pc[Sched] = "release" /\ MovedOn)
         => /\ nextRun'[Sched][idx[Sched]] = now + Entry.interval
            /\ nextRun'[Sched][idx[Sched]] > tickNow[Sched]
            /\ idx'[Sched] # idx[Sched]
      ]_vars
  /\ [](pc[Sched] \in {"check", "acquire", "add", "body"}
         => nextRun[Sched][idx[Sched]] <= now)

\* a body that took time has ended and the scheduler has gone to sleep
C15_Witness ==
  /\ pc[Sched] = "sleep" /\ Len(schedule_entries) = 1
  /\ tickNow[Sched] < now
  /\ nextRun[Sched][1] = now + schedule_entries[1].interval
  /\ nextRun[Sched][1] > tickNow[Sched] + schedule_entries[1].interval

\* the scheduler goes to sleep
FallsAsleep == pc[Sched] # "sleep" /\ pc'[Sched] = "sleep"

EarliestNextRun(nr) ==
  CHOOSE d \in RangeOfSeq(nr) : \A e \in RangeOfSeq(nr) : d <= e

\* C28: when the scheduler goes to sleep after a pass, the sleep lasts
\* max(1, min(tick_interval, earliest next_run - now)) seconds, the earliest
\* next_run being taken over all schedule entries as they are after the
\* pass, those skipped and rescheduled in it included.
C28_SleepUntilEarliestNextRun ==
  [][ FallsAsleep
      => wake'[Sched] - now
           = Max(1, Min(tick, EarliestNextRun(nextRun'[Sched]) - now)) ]_vars

\* no configured job yields a positive interval
NoPositiveInterval ==
  \A i \in DOMAIN cfg :
    LET interval == parse_interval_to_seconds(cfg[i].every)
    IN  ~(interval.some /\ interval.val > 0)

\* C17: a scheduler none of whose jobs yields a positive interval takes one
\* step, its return: it never enters the loop, and no step of it creates or
\* changes the registry file or a lock file.
C17_NoEntriesReturns ==
  [][ NoPositiveInterval
      => /\ pc'[Sched] \in {"start", "done"}
         /\ registry' = registry
         /\ locks' = locks ]_vars

\* two jobs configured, neither with a positive interval: the scheduler has
\* returned and there is still no registry file
C17_Witness ==
  /\ pc[Sched] = "done"
  /\ Len(cfg) = 2 /\ NoPositiveInterval
  /\ ~registry.exists

\* entry i waits to be examined: the scheduler is in its loop and is not in
\* the middle of running entry i
Pending(i) ==
  /\ pc[Sched] \in InLoop
  /\ ~(idx[Sched] = i
         /\ pc[Sched] \in {"acquire", "add", "body", "remove", "release"})

\* C18 as stated: no entry waits to be examined for more than one tick
\* interval past its next_run.
C18_ExaminedWithinTick ==
  \A i \in DOMAIN nextRun[Sched] :
    Pending(i) => now - nextRun[Sched][i] <= tick

\* C18 as amended: no entry waits to be examined for more than one tick
\* interval (one second when the tick interval is below 1) past its next_run,
\* unless a job body was executing after that next_run.
C18_ExaminedWithinTickUnlessBusy ==
  \A i \in DOMAIN nextRun[Sched] :
    (Pending(i) /\ ~delayed[i]) => now - nextRun[Sched][i] <= Max(1, tick)

\* a pass that began after a sleep examines an entry that became due during
\* the sleep
C18_Witness ==
  /\ pc[Sched] = "check" /\ tick >= 1
  /\ tickNow[Sched] = now /\ now > StartTime
  /\ ~delayed[idx[Sched]]
  /\ nextRun[Sched][idx[Sched]] > StartTime
  /\ nextRun[Sched][idx[Sched]] <= now
  /\ now - nextRun[Sched][idx[Sched]] <= tick

\* C26: when the retention of a job fails on its listing, in the job body
\* of a scheduler or of a one-shot run or in the retention call of a
\* retention-only run, the driver does not end: the step that ends the body
\* or the retention call leaves the driver in its loop, where the jobs that
\* follow are taken up.
C26_RetentionFailureKeepsDriver ==
  [][\A p \in Procs :
       (pc[p] \in {"body", "retention"} /\ pc'[p] # pc[p])
       => pc'[p] \in {"remove", "rcheck", "check", "done", "sleep"}]_vars

\* process p moves on to step s of its loop
Enters(p, s) == pc[p] # s /\ pc'[p] = s

\* the lock file of the job p is working on
OwnLock(p) == get_lock_path(JobOf(p))

\* C29 as stated: lock release comes before the removal of the run's
\* registry entry, so the step that removes the entry finds the lock file
\* of the run deleted.
C29_ReleaseThenRemove ==
  [][\A p \in Procs :
       (pc[p] = "remove" /\ pc'[p] # "remove") => ~locks[OwnLock(p)].exists]_vars

\* C29 as amended: the steps of a job run follow one another in the order
\* registry check, lock acquire, registry add, job body, removal of the
\* run's registry entry, lock release.  The lock file is in place from the
\* acquire until the release, so the removal is made under the lock; the
\* release deletes the lock file and leaves the registry alone.
C29_RemoveThenRelease ==
  [][\A p \in Procs :
       /\ Enters(p, "acquire") => pc[p] = "check"
       /\ Enters(p, "add")
            => pc[p] = "acquire" /\ locks'[OwnLock(p)].exists
       /\ Enters(p, "body")
            => pc[p] = "add" /\ locks' = locks /\ locks[OwnLock(p)].exists
       /\ Enters(p, "remove") => pc[p] = "body"
       /\ Enters(p, "release")
            => pc[p] = "remove" /\ locks' = locks /\ locks[OwnLock(p)].exists
       /\ (pc[p] = "release" /\ pc'[p] # "release")
            => ~locks'[OwnLock(p)].exists /\ registry' = registry]_vars

\* the run's record is out of the registry and its lock file is still there
C29_Witness ==
  \E p \in Procs :
    /\ pc[p] = "release"
    /\ locks[OwnLock(p)].exists
    /\ registry.exists /\ registry.lines = << >>

\* ------------------------------------------- claims on the interval parsing
\* the reading of an interval text the claim gives: digits are seconds, digits
\* followed by s, m, h or d are multiplied by 1, 60, 3600 or 86400, any
\* other text is no schedule
PlainDigits(str) == Len(str) > 0 /\ \A i \in DOMAIN str : str[i] \in Digits
StatedInterval(str) ==
  LET n == SubSeq(str, 1, Len(str) - 1)
      u == str[Len(str)]
  IN  IF PlainDigits(str) THEN Some(IntOf(str))
      ELSE IF Len(str) > 0 /\ PlainDigits(n) /\ u \in {"s", "m", "h", "d"}
        THEN Some(IntOf(n) * (CASE u = "s" -> 1 [] u = "m" -> 60
                                [] u = "h" -> 3600 [] u = "d" -> 86400))
      ELSE None

\* the text without surrounding blanks and in lower case
Normalised(str) == [i \in DOMAIN Strip(str) |-> Lower(Strip(str)[i])]

\* the scheduler has a schedule entry for its one job exactly when the
\* interval is a positive number
EntryIffPositive(interval) ==
  pc[Sched] # "start"
  => IF interval.some /\ interval.val > 0
     THEN pc[Sched] = "tick" /\ Len(nextRun[Sched]) = 1
     ELSE pc[Sched] = "done" /\ Len(nextRun[Sched]) = 0

\* C19 as stated: an interval text is read as the claim says, letter for
\* letter, and the job gets a schedule entry exactly when the result is a
\* positive number.
C19_IntervalAsWritten ==
  LET every == cfg[1].every
      interval == parse_interval_to_seconds(every)
  IN  /\ every.kind = "str" => interval = StatedInterval(every.str)
      /\ every.kind = "none" => interval = None
      /\ EntryIffPositive(interval)

\* C19 as amended: an interval text is read as the claim says once its
\* surrounding blanks are removed and its letters are lower-cased, an absent
\* interval is no schedule, and the job gets a schedule entry exactly when
\* the result is a positive number.
C19_IntervalNormalised ==
  LET every == cfg[1].every
      interval == parse_interval_to_seconds(every)
  IN  /\ every.kind = "str" => interval = StatedInterval(Normalised(every.str))
      /\ every.kind = "none" => interval = None
      /\ EntryIffPositive(interval)

\* " 3M" was read as 180 seconds and the job got its schedule entry
C19_Witness ==
  /\ cfg[1].every = StrEvery(<< " ", "3", "M" >>)
  /\ parse_interval_to_seconds(cfg[1].every) = Some(180)
  /\ pc[Sched] = "tick" /\ Len(nextRun[Sched]) = 1

\* ------------------------------------- the retention, S3 calls that fail
\* list_objects_v2 lists the keys in their lexicographic order
KeyOrdered ==
  { ls \in Listings : \A i \in DOMAIN ls, j \in DOMAIN ls :
                          i < j => ls[i].key < ls[j].key }

InitRetIo ==
  /\ now = MaxLm + 1
  /\ ttl = MaxTtl
  /\ locks = [lp \in LockPaths |-> NoFile]
  /\ registry = NoReg
  /\ calls = << >>
  /\ bucket \in KeyOrdered
  /\ NoDrivers

\* a page request or a delete call may raise
NextRetIo ==
  \/ \E max_keep \in 0..MaxKeep, max_age_days \in 0..MaxAgeDays,
        dry_run \in BOOLEAN, list_io \in 0..MaxObjs, del_io \in 0..MaxObjs :
          ApplyRetention(max_keep, max_age_days, dry_run, list_io, del_io)
  \/ \E list_io \in 0..MaxObjs, del_io \in 0..MaxObjs :
          LiveRun(list_io, del_io)

SpecRetIo == InitRetIo /\ [][NextRetIo]_vars

\* ------------------------------------------------- the job body, run_job
\* One call of run_job on a job: the artifacts are produced, uploaded one
\* by one, and apply_retention is called; an exception anywhere leaves
\* through the finally block, which only removes temporary files.
\* A source of a "file" job: None or empty, a file that exists, a missing one.
SourceKinds == {"none", "file", "missing"}

\* the job descriptors: "file" jobs with a list of sources, a "command" job
\* (one artifact, the command may fail), a job of an unknown type
RunJobs ==
  { [type |-> "file", source |-> src] :
      src \in SeqsUpTo(SourceKinds, MaxSources) }
    \cup { [type |-> "command", source |-> << >>],
           [type |-> "other", source |-> << >>] }

Runner == "p1"

\* jobs.py 50-75: a missing source of a "file" job raises FileNotFoundError
HasMissing(job) == \E i \in DOMAIN job.source : job.source[i] = "missing"

\* jobs.py 47-132: the number of artifacts when nothing raises
NumArtifacts(job) ==
  IF job.type = "file"
  THEN Cardinality({ i \in DOMAIN job.source : job.source[i] = "file" })
  ELSE 1

\* jobs.py 50-132: may producing the artifacts end with outcome out
ProduceOutcome(job, out) ==
  CASE job.type = "file" -> (out = "raise") = HasMissing(job)
    [] job.type = "command" -> out \in {"ok", "raise"}
    [] OTHER -> out = "raise"

\* mutant: an upload that fails is passed over
UploadRaises_swallowed(out) == FALSE

\* s3.py 65-66: put_object raises and upload_file does not catch it
UploadRaises(out) == out = "raise"

\* old objects under the job's prefix, and the job with its policy
InitRun ==
  /\ now = MaxLm + 1
  /\ ttl = MaxTtl
  /\ locks = [lp \in LockPaths |-> NoFile]
  /\ registry = NoReg
  /\ calls = << >>
  /\ bucket \in { ls \in KeyOrdered : \A i \in DOMAIN ls : ls[i].lm = 0 }
  /\ pc = [p \in Procs |-> IF p = Runner THEN "produce" ELSE "off"]
  /\ idx = [p \in Procs |-> 0]
  /\ tickNow = [p \in Procs |-> 0]
  /\ nextRun = [p \in Procs |-> << >>]
  /\ taskId = [p \in Procs |-> << >>]
  /\ wake = [p \in Procs |-> 0]
  /\ acqAt = [p \in Procs |-> 0]
  /\ overrun = FALSE
  /\ cfg \in { << [job |-> j, max_keep |-> mk, max_age_days |-> ma,
                    dry_run |-> dry] >> :
                 j \in RunJobs, mk \in 0..MaxKeep, ma \in 0..MaxAgeDays,
                 dry \in BOOLEAN }
  /\ faults = 0
  /\ tick = 0
  /\ delayed = << >>
  /\ nextDue = [p \in Procs |-> None]
  /\ newLines = [p \in Procs |-> NoLines]

\* jobs.py 49-132: the artifacts are produced, or an exception is raised
RunProduce(out) ==
  /\ pc[Runner] = "produce"
  /\ ProduceOutcome(cfg[1].job, out)
  /\ calls' = Append(calls, [op |-> "produce", failed |-> out # "ok",
                             before |-> bucket])
  /\ pc' = [pc EXCEPT ![Runner] =
              IF out = "raise" THEN "raised"
              ELSE IF NumArtifacts(cfg[1].job) = 0 THEN "retention"
              ELSE "upload"]
  /\ idx' = [idx EXCEPT ![Runner] = 1]
  /\ UNCHANGED << now, ttl, locks, registry, tickNow, nextRun, taskId, wake,
                  acqAt, overrun, cfg, faults, tick, delayed, nextDue,
                  newLines, bucket >>

\* jobs.py 134-145, s3.py 59-69: one artifact is uploaded under a new key;
\* a dry run prints and makes no call
RunUpload(out) ==
  /\ pc[Runner] = "upload"
  /\ cfg[1].dry_run => out = "ok"
  /\ calls' = Append(calls, [op |-> "upload", failed |-> out # "ok",
                             before |-> bucket])
  /\ bucket' = IF cfg[1].dry_run \/ out # "ok" THEN bucket
               ELSE Append(bucket, [key |-> MaxObjs + idx[Runner],
                                    lm |-> now])
  /\ pc' = [pc EXCEPT ![Runner] =
              IF UploadRaises(out) THEN "raised"
              ELSE IF idx[Runner] = NumArtifacts(cfg[1].job) THEN "retention"
              ELSE "upload"]
  /\ idx' = [idx EXCEPT ![Runner] = idx[Runner] + 1]
  /\ UNCHANGED << now, ttl, locks, registry, tickNow, nextRun, taskId, wake,
                  acqAt, overrun, cfg, faults, tick, delayed, nextDue,
                  newLines >>

\* jobs.py 147-162: apply_retention on the job's prefix, then the finally
\* block; run_job returns, or the exception of an S3 call leaves it
RunRetention(list_io, del_io) ==
  /\ pc[Runner] = "retention"
  /\ RetentionIo(cfg[1].max_keep, cfg[1].max_age_days, cfg[1].dry_run,
                 list_io, del_io)
  /\ \E r \in { apply_retention_call(bucket, cfg[1].max_keep,
                                      cfg[1].max_age_days, now,
                                      cfg[1].dry_run, list_io, del_io) } :
      /\ bucket' = SelectSeq(bucket, LAMBDA o : o.key \notin r.deleted)
      /\ calls' = Append(calls, [op |-> "retention", failed |-> r.raised,
                                 before |-> bucket, requests |-> r.requests,
                                 sent |-> r.sent])
      /\ pc' = [pc EXCEPT ![Runner] = IF r.raised THEN "raised"
                                      ELSE "returned"]
  /\ UNCHANGED << now, ttl, locks, registry, idx, tickNow, nextRun, taskId,
                  wake, acqAt, overrun, cfg, faults, tick, delayed, nextDue,
                  newLines >>

NextRun ==
  \/ \E out \in {"ok", "raise"} : RunProduce(out)
  \/ \E out \in {"ok", "raise"} : RunUpload(out)
  \/ \E list_io \in 0..MaxObjs, del_io \in 0..MaxObjs :
        RunRetention(list_io, del_io)

SpecRun == InitRun /\ [][NextRun]_vars

\* ------------------------------------------- the retention and its prefix
\* The bucket holds objects of several jobs; the listing request answers
\* with the objects whose key begins with the Prefix it was given.
\* The key texts, in their lexicographic order ('/' < '2' < 'd' < 'x').
KeyTexts == << << "d", "/", "/", "x" >>, << "d", "/", "x" >>,
              << "d", "2", "/", "x" >> >>

KeyText(k) == IF k \in DOMAIN KeyTexts THEN KeyTexts[k] ELSE << "x", ToString(k) >>

\* the prefix argument of apply_retention
PrefixPool == { << "d" >>, << "d", "/" >>, << "d", "/", "/" >>, << "d", "2" >>,
                << "x" >> }

RECURSIVE RStrip(_)
\* str.rstrip("/")
RStrip(s) ==
  IF Len(s) > 0 /\ s[Len(s)] = "/" THEN RStrip(SubSeq(s, 1, Len(s) - 1)) ELSE s

\* retention.py 19: Prefix=prefix.rstrip("/") + "/"
ListPrefix(prefix) == RStrip(prefix) \o << "/" >>

\* str.startswith
StartsWith(s, p) == Len(p) <= Len(s) /\ SubSeq(s, 1, Len(p)) = p

\* list_objects_v2: the objects whose key begins with Prefix
ObjectsUnder(objs, p) ==
  SelectSeq(objs, LAMBDA o : StartsWith(KeyText(o.key), p))

\* retention.py 5-58 with the prefix given: the listing is of the objects
\* under ListPrefix, a live run deletes the keys of its batches
PrefixRetention(prefix, max_keep, max_age_days, dry_run) ==
  /\ Len(calls) = 0
  /\ \E ls \in { ObjectsUnder(bucket, ListPrefix(prefix)) } :
      \E r \in { apply_retention_call(ls, max_keep, max_age_days, now,
                                      dry_run, 0, 0) } :
        /\ bucket' = SelectSeq(bucket, LAMBDA o : o.key \notin r.deleted)
        /\ calls' = Append(calls,
              [op |-> "retention", prefix |-> prefix, max_keep |-> max_keep,
               max_age_days |-> max_age_days, dry_run |-> dry_run,
               listing |-> IF r.requests > 0 THEN ls ELSE << >>,
               before |-> bucket, at |-> now,
               requests |-> r.requests, out |-> r.out, dry |-> r.dry,
               sent |-> r.sent, after |-> bucket'])
  /\ UNCHANGED << now, ttl, locks, registry, drv >>

NextPrefix ==
  \E prefix \in PrefixPool, max_keep \in 0..MaxKeep,
     max_age_days \in 0..MaxAgeDays, dry_run \in BOOLEAN :
       PrefixRetention(prefix, max_keep, max_age_days, dry_run)

SpecPrefix == InitRetIo /\ [][NextPrefix]_vars

\* ------------------------------------------------- claims on the retention
IsRetention(c) == c.op = "retention"

\* q holds the objects of the listing ls, newest first
NewestFirst(q, ls) ==
  /\ Len(q) = Len(ls)
  /\ RangeOfSeq(q) = RangeOfSeq(ls)
  /\ \A i \in DOMAIN q, j \in DOMAIN q : i < j => q[i].lm >= q[j].lm

\* C20: in a retention call on a non-empty listing with a policy set, the
\* order the keys are taken in is the listing sorted newest first, and a key
\* is in the deletion set exactly when its position in that order (counted
\* from 0) is max_keep or more, max_keep being set, or its last-modified is
\* before now minus max_age_days, max_age_days being set: the union of the
\* two rules.
C20_DeletionSetIsUnion ==
  \A n \in DOMAIN calls :
    LET c == calls[n]
    IN  (IsRetention(c) /\ Len(c.listing) > 0 /\ c.list_io = 0
           /\ (c.max_keep > 0 \/ c.max_age_days > 0))
        => /\ NewestFirst(c.sorted, c.listing)
           /\ \A i \in DOMAIN c.sorted :
                 c.sorted[i].key \in RangeOfSeq(c.ret)
                 <=> \/ c.max_keep > 0 /\ i - 1 >= c.max_keep
                     \/ c.max_age_days > 0
                          /\ c.sorted[i].lm < c.at - c.max_age_days

\* three objects, max_keep = 2 and an age limit: the second newest is among
\* the newest two and is deleted for its age, the newest is kept
C20_Witness ==
  /\ Len(calls) = 1 /\ IsRetention(calls[1])
  /\ LET c == calls[1]
     IN  /\ c.max_keep = 2 /\ c.max_age_days > 0
         /\ Len(c.sorted) = 3
         /\ c.sorted[1].key \notin RangeOfSeq(c.ret)
         /\ c.sorted[2].key \in RangeOfSeq(c.ret)
         /\ c.sorted[3].key \in RangeOfSeq(c.ret)
         /\ c.sorted[1].lm > c.sorted[2].lm
         /\ c.sorted[2].lm > c.sorted[3].lm

\* the keys of a call's listing that are no longer in the bucket after it
Gone(c) ==
  { o.key : o \in RangeOfSeq(c.listing) } \ { o.key : o \in RangeOfSeq(c.after) }

\* the deletion set of a call, by the two rules of the policy
DeletionSet(c) ==
  { c.sorted[i].key : i \in { j \in DOMAIN c.sorted :
      \/ c.max_keep > 0 /\ j - 1 >= c.max_keep
      \/ c.max_age_days > 0 /\ c.sorted[j].lm < c.at - c.max_age_days } }

\* C21: a dry run sends nothing to the delete API and leaves the bucket as
\* it was, and the keys it reports are exactly the keys that the live run on
\* the same listing, with the same policy and at the same clock, deletes.
C21_DryRunReportsLiveSet ==
  /\ \A n \in DOMAIN calls :
        (IsRetention(calls[n]) /\ calls[n].dry_run)
        => calls[n].sent = << >> /\ calls[n].after = calls[n].listing
  /\ (/\ Len(calls) = 2
      /\ calls[1].dry_run /\ ~calls[2].dry_run
      /\ ~calls[1].raised /\ ~calls[2].raised
      /\ calls[1].listing = calls[2].listing
      /\ calls[1].max_keep = calls[2].max_keep
      /\ calls[1].max_age_days = calls[2].max_age_days
      /\ calls[1].at = calls[2].at)
     => RangeOfSeq(calls[1].dry) = Gone(calls[2])

\* a dry run reported two of three objects, the live run then deleted them
C21_Witness ==
  /\ Len(calls) = 2
  /\ calls[1].dry_run /\ ~calls[2].dry_run
  /\ Len(calls[1].listing) = 3
  /\ Cardinality(RangeOfSeq(calls[1].dry)) = 2
  /\ Cardinality(Gone(calls[2])) = 2
  /\ Len(bucket) = 1

\* C22: a retention call whose max_keep and max_age_days are both unset or
\* zero requests no page of the listing, sends nothing to the delete API and
\* leaves the bucket as it was; so does a call that finds the listing empty.
C22_NoPolicyNoListing ==
  \A n \in DOMAIN calls :
    LET c == calls[n]
    IN  IsRetention(c)
        => /\ (c.max_keep = 0 /\ c.max_age_days = 0)
               => c.requests = 0 /\ c.sent = << >> /\ c.after = c.listing
           /\ Len(c.listing) = 0
               => c.sent = << >> /\ c.after = c.listing

\* a live run without a policy on three objects, all of them a day old or
\* more
C22_Witness ==
  /\ Len(calls) = 1 /\ IsRetention(calls[1])
  /\ LET c == calls[1]
     IN  /\ ~c.dry_run /\ c.max_keep = 0 /\ c.max_age_days = 0
         /\ Len(c.listing) = 3
         /\ \A i \in DOMAIN c.listing : c.listing[i].lm < c.at - 1
         /\ c.requests = 0
  /\ Len(bucket) = 3

\* the places (batch, position) at which key k was sent
SentAt(c, k) ==
  { bi \in UNION { { << b, i >> : i \in DOMAIN c.sent[b] } : b \in DOMAIN c.sent } :
      c.sent[bi[1]][bi[2]] = k }

\* C23: every batch a live run sends to the delete API holds at most
\* chunk_size keys, and when every batch succeeds each key of the deletion
\* set is sent in exactly one batch and no key outside the deletion set is
\* sent.
C23_BatchesPartitionDeletionSet ==
  \A n \in DOMAIN calls :
    LET c == calls[n]
    IN  (IsRetention(c) /\ ~c.dry_run)
        => /\ \A b \in DOMAIN c.sent : Len(c.sent[b]) <= chunk_size
           /\ ~c.raised
               => /\ \A k \in DeletionSet(c) : Cardinality(SentAt(c, k)) = 1
                  /\ \A b \in DOMAIN c.sent :
                        RangeOfSeq(c.sent[b]) \subseteq DeletionSet(c)

\* more keys to delete than one batch holds: a full batch, then the rest
C23_Witness ==
  /\ Len(calls) = 1 /\ IsRetention(calls[1])
  /\ LET c == calls[1]
     IN  /\ ~c.dry_run /\ ~c.raised
         /\ Cardinality(DeletionSet(c)) > chunk_size
         /\ Len(c.sent) = 2
         /\ Len(c.sent[1]) = chunk_size
         /\ Len(c.sent[2]) >= 1
         /\ Gone(c) = DeletionSet(c)

\* the number of batches the deletion set of a call takes
BatchesNeeded(c) ==
  (Cardinality(DeletionSet(c)) + chunk_size - 1) \div chunk_size

\* C24: when the delete call of a batch fails, the failure is logged and
\* the batches after it are sent all the same.
C24_FailedBatchDoesNotAbort ==
  \A n \in DOMAIN calls :
    LET c == calls[n]
    IN  (IsRetention(c) /\ c.del_io # 0)
        => /\ "delete failed" \in RangeOfSeq(c.out)
           /\ Len(c.sent) = BatchesNeeded(c)

\* C25: when the request for a page of the listing fails, the call sends
\* nothing to the delete API, reports no key and leaves the bucket as it was.
C25_ListingFailureDeletesNothing ==
  \A n \in DOMAIN calls :
    LET c == calls[n]
    IN  (IsRetention(c) /\ c.list_io # 0)
        => c.sent = << >> /\ c.dry = << >> /\ c.after = c.listing

\* the second page fails in a live run whose policy selects a key of the
\* first page
C25_Witness ==
  /\ Len(calls) = 1 /\ IsRetention(calls[1])
  /\ LET c == calls[1]
     IN  /\ ~c.dry_run /\ c.list_io = 2 /\ c.raised
         /\ Len(c.listing) > PageSize
         /\ \E i \in 1..PageSize : c.listing[i].key \in DeletionSet(c)
         /\ c.sent = << >>
  /\ bucket = calls[1].listing

\* ------------------------------------------- claims: the TTL and two drivers
\* the registry lines that carry the task id of p's run
OwnRecords(p) ==
  { i \in DOMAIN registry.lines :
      \E t \in Times : registry.lines[i] =
          RegistryEntry(t, JobOf(p), taskId[p], PidOf(p), Host) }

\* p's run wrote its lock, and each record of it still in the registry,
\* at least ttl seconds ago
ClaimExpired(p) ==
  /\ now - acqAt[p] >= ttl
  /\ \A i \in OwnRecords(p) : now - ParseFloat(registry.lines[i][1]) >= ttl

\* C31: while the body of a run is still executing ttl seconds after its
\* lock and its registry record were written, the registry check of the
\* other process for the same job finds the job not active and its acquire
\* takes the lock over.
C31_ExpiredClaimIsReclaimed ==
  [][\A p, q \in Procs :
       (p # q /\ pc[q] = "body" /\ ClaimExpired(q)
          /\ pc[p] \in {"check", "acquire"} /\ JobOf(p) = JobOf(q)
          /\ pc'[p] # pc[p])
       => /\ pc[p] = "check" => pc'[p] = "acquire"
          /\ pc[p] = "acquire" =>
                /\ pc'[p] = "add"
                /\ locks'[get_lock_path(JobOf(p))].text =
                      LockRecord(now, PidOf(p), Host)]_vars

\* both bodies of the same job execute, the second one having taken the
\* lock ttl seconds or more after the first
C31_Witness ==
  \E p, q \in Procs :
    /\ p # q /\ pc[p] = "body" /\ pc[q] = "body"
    /\ JobOf(p) = JobOf(q)
    /\ acqAt[p] - acqAt[q] >= ttl
    /\ locks[get_lock_path(JobOf(p))].text = LockRecord(acqAt[p], PidOf(p), Host)

\* ------------------------------------- claims: the registry, step by step
\* C32: a record in the tasks file stays there until a remove with its
\* task id writes the file or until its age has reached ttl, whatever the
\* other process does in between.
C32_RecordsSurviveOtherProcesses ==
  [][\A i \in DOMAIN registry.lines :
       LET l == registry.lines[i]
       IN  \/ l \in RangeOfSeq(registry'.lines)
           \/ now - ParseFloat(l[1]) >= ttl
           \/ \E p \in Procs : /\ pc[p] = "remove_write"
                                 /\ pc'[p] = "removed"
                                 /\ RemoveMatches(l, taskId[p])]_vars

\* ---------------------------------- claims: the claim of a dead process
\* the registry lines written by the process on the other host
DeadRecords == { i \in DOMAIN registry.lines :
                   registry.lines[i][Len(registry.lines[i])] = OtherHost }

\* the job of the dead process's record in line i
DeadJob(i) == JoinFields(SubSeq(registry.lines[i], 2, Len(registry.lines[i]) - 3))

\* the lock of job n holds the record the dead process wrote at time t
DeadLock(n, t) ==
  /\ locks[get_lock_path(n)].exists
  /\ locks[get_lock_path(n)].text = LockRecord(t, OtherPid, OtherHost)

\* C33: a firing of the job of a dead process's claim is skipped while the
\* record is younger than ttl; at a firing when the record is ttl old or
\* older the check removes the record from the file and goes on to acquire,
\* acquire replaces a lock record that is ttl old or older by the
\* scheduler's own, and the job body is entered.
C33_DeadClaimBlocksUntilTtl ==
  [][/\ \A i \in DeadRecords :
          (pc[Sched] = "check" /\ pc'[Sched] # "check"
             /\ JobOf(Sched) = DeadJob(i))
          => IF now - ParseFloat(registry.lines[i][1]) >= ttl
             THEN /\ pc'[Sched] = "acquire"
                  /\ registry.lines[i] \notin RangeOfSeq(registry'.lines)
             ELSE pc'[Sched] # "acquire"
     /\ \A t \in Times :
          (pc[Sched] = "acquire" /\ pc'[Sched] # "acquire"
             /\ DeadLock(JobOf(Sched), t) /\ now - t >= ttl)
          => /\ pc'[Sched] = "add"
             /\ locks'[get_lock_path(JobOf(Sched))].text =
                   LockRecord(now, PidOf(Sched), Host)
     /\ (pc[Sched] = "add" /\ pc'[Sched] # "add") => pc'[Sched] = "body"]_vars

\* ttl seconds or more after the dead process wrote its lock, the check of
\* a firing of its job has passed with the record gone from the file and
\* the stale lock is about to be overwritten
C33_Witness ==
  /\ pc[Sched] = "acquire"
  /\ JobOf(Sched) = JobA
  /\ registry.exists /\ DeadRecords = {}
  /\ DeadLock(JobA, StartTime)
  /\ now - StartTime >= ttl

\* ------------------------------------- claims: the retention and its prefix
\* the given prefix followed by one slash, unless it ends with one already
WithOneSlash(prefix) ==
  IF Len(prefix) > 0 /\ prefix[Len(prefix)] = "/" THEN prefix
  ELSE prefix \o << "/" >>

\* the keys a call listed, reported or sent to the delete API
Touched(c) ==
  { o.key : o \in RangeOfSeq(c.listing) } \cup RangeOfSeq(c.dry)
    \cup UNION { RangeOfSeq(c.sent[b]) : b \in DOMAIN c.sent }

\* C34: every key a retention call lists, reports or deletes begins with
\* the given prefix followed by one slash (the prefix itself when it ends
\* with a slash), and every object whose key does not is in the bucket
\* after the call.
C34_OnlyKeysUnderThePrefix ==
  \A n \in DOMAIN calls :
    LET c == calls[n]
    IN  IsRetention(c)
        => /\ \A k \in Touched(c) :
                StartsWith(KeyText(k), WithOneSlash(c.prefix))
           /\ \A o \in RangeOfSeq(c.before) :
                ~StartsWith(KeyText(o.key), WithOneSlash(c.prefix))
                => o \in RangeOfSeq(c.after)

\* --------------------------------------- claims: release and the lock owner
\* C35: a release that removes a lock file removes a file that holds the
\* record the releasing process wrote when its run acquired the lock.
C35_ReleaseOnlyOwnLock ==
  [][\A p \in Procs :
       (pc[p] = "release" /\ pc'[p] # "release"
          /\ locks[get_lock_path(JobOf(p))].exists
          /\ ~locks'[get_lock_path(JobOf(p))].exists)
       => locks[get_lock_path(JobOf(p))].text =
            LockRecord(acqAt[p], PidOf(p), Host)]_vars

\* C36: once the remove of a process has returned, the tasks file holds
\* no record carrying the task id of that process.
C36_RemovedRecordStaysRemoved ==
  \A p \in Procs :
    pc[p] = "removed"
    => \A i \in DOMAIN registry.lines :
          ~RemoveMatches(registry.lines[i], taskId[p])

\* C36, in the drivers: while the scheduler sleeps the tasks file holds no
\* record with a task id it generated and no lock file holds a record it
\* wrote.
SleepingSchedulerLeftNothing ==
  pc[Sched] = "sleep"
  => /\ \A i \in DOMAIN registry.lines :
          registry.lines[i][Len(registry.lines[i]) - 1] # PidOf(Sched)
     /\ \A lp \in LockPaths :
          locks[lp].exists => locks[lp].text[2] # PidOf(Sched)

\* ------------------------------------------ claims: the keep-count alone
\* a live run with a keep-count and no age limit, every S3 call succeeding
KeepOnly(c) ==
  /\ IsRetention(c) /\ ~c.dry_run /\ ~c.raised
  /\ c.max_keep > 0 /\ c.max_age_days = 0

\* C37: after a live run with only max_keep = k > 0 on n listed objects,
\* min(n, k) of them are left and none of those is older than a deleted
\* one.
C37_KeepCountKeepsNewest ==
  \A n \in DOMAIN calls :
    LET c == calls[n]
    IN  KeepOnly(c)
        => /\ Len(c.after) = Min(Len(c.listing), c.max_keep)
           /\ RangeOfSeq(c.after) \subseteq RangeOfSeq(c.listing)
           /\ \A o \in RangeOfSeq(c.after) :
                \A d \in RangeOfSeq(c.listing) \ RangeOfSeq(c.after) :
                  o.lm >= d.lm

\* more objects than the keep-count, of three different ages, listed
\* oldest first: the newest stay
C37_Witness ==
  /\ Len(calls) >= 1 /\ KeepOnly(calls[Len(calls)])
  /\ LET c == calls[Len(calls)]
     IN  /\ Len(c.listing) = c.max_keep + 1
         /\ \A i \in DOMAIN c.listing, j \in DOMAIN c.listing :
               i < j => c.listing[i].lm < c.listing[j].lm
         /\ Len(c.after) = c.max_keep
         /\ bucket = c.after
         /\ c.listing[1] \notin RangeOfSeq(bucket)

\* ------------------------------------------ claims: the listing order
\* the listings that hold the objects of ls, in any order
Reorderings(ls) ==
  { q \in Listings : Len(q) = Len(ls) /\ RangeOfSeq(q) = RangeOfSeq(ls) }

\* C38: the list of keys to delete that a call computes is the one it
\* computes, under the same policy and at the same time, from its objects
\* in any other listing order.
C38_DeletionSetIgnoresListingOrder ==
  \A n \in DOMAIN calls :
    LET c == calls[n]
    IN  (IsRetention(c) /\ c.list_io = 0)
        => \A q \in Reorderings(c.listing) :
              apply_retention(q, c.max_keep, c.max_age_days, c.at) = c.ret

\* ------------------------------------- claims: job names and the separator
\* the record an add wrote: the last line of the file after it
AddedLine(c) == c.post.lines[Len(c.post.lines)]

\* C39: after an add whose file-system calls succeed, an active_jobs call
\* less than ttl later reports the job name given to add for the added
\* record, and a remove with the task id given to add leaves the file
\* without that record.
C39_AnyNameRoundTrips ==
  (/\ Len(calls) = 2
   /\ IsAdd(calls[1]) /\ calls[1].io = "ok" /\ calls[2].io = "ok")
  => /\ (IsActiveJobs(calls[2]) /\ calls[2].at - calls[1].at < ttl)
        => /\ Len(calls[2].ret) = Len(calls[1].post.lines)
              => calls[2].ret[Len(calls[2].ret)] = calls[1].job
           /\ calls[1].job \in RangeOfSeq(calls[2].ret)
     /\ (IsRemove(calls[2]) /\ calls[2].tid = calls[1].tid)
        => AddedLine(calls[1]) \notin RangeOfSeq(calls[2].post.lines)

\* ------------------------------------------------- claims: the job body
\* producing the artifacts or an upload failed in this run
BackupFailed ==
  \E n \in DOMAIN calls : calls[n].op \in {"produce", "upload"} /\ calls[n].failed

\* the uploads of the run so far
Uploads == { n \in DOMAIN calls : calls[n].op = "upload" }

\* C40: apply_retention is called only after every artifact of the job was
\* produced and uploaded without a failure; in a run where producing or an
\* upload failed no retention call is made and every object the bucket held
\* before the run is still there.
C40_RetentionOnlyAfterAllUploads ==
  /\ \A n \in DOMAIN calls :
        IsRetention(calls[n])
        => /\ \A m \in DOMAIN calls : m # n => (m < n /\ ~calls[m].failed)
           /\ Cardinality(Uploads) = NumArtifacts(cfg[1].job)
  /\ BackupFailed
       => /\ \A n \in DOMAIN calls : ~IsRetention(calls[n])
          /\ pc[Runner] = "raised"
          /\ \A o \in RangeOfSeq(calls[1].before) : o \in RangeOfSeq(bucket)

\* the second upload of a live run failed while the bucket held more old
\* objects than the keep-count: the run ended and they are all there
C40_Witness ==
  /\ Len(calls) = 3
  /\ calls[2].op = "upload" /\ ~calls[2].failed
  /\ calls[3].op = "upload" /\ calls[3].failed
  /\ pc[Runner] = "raised"
  /\ ~cfg[1].dry_run
  /\ cfg[1].max_keep > 0 /\ Len(calls[1].before) > cfg[1].max_keep
  /\ cfg[1].max_age_days > 0
  /\ RangeOfSeq(calls[1].before) \subseteq RangeOfSeq(bucket)

====
